---- MODULE Spec2Model ----
(***************************************************************************)
(* The hand-written MongoDB log line parser of toshok/mongologtools        *)
(* (package logline, type nonPegLogLineParser), as a state machine.        *)
(*                                                                         *)
(* A rune is a one-character string; the non-ASCII runes of the model are  *)
(* written by their code point, "U+00E9" (e acute, a letter, two bytes in  *)
(* UTF-8), "U+00B2" (superscript two, category No, two bytes) and "U+0663" *)
(* (arabic-indic digit three, category Nd, two bytes).  A Go               *)
(* string inside the parser is the sequence of its runes; stored in the    *)
(* record (as a key or a value) it is written as the TLA+ string Str of    *)
(* that sequence.  The rune buffer p.runes is the variable runes, 1-based: *)
(* Go's p.runes[i] is runes[i + 1], and the variable position is Go's      *)
(* p.position + 1.                                                         *)
(***************************************************************************)
EXTENDS Integers, Sequences, FiniteSets, TLC

VARIABLES
    Buffer,     \* p.Buffer: the input line
    runes,      \* p.runes: the line's runes followed by endRune
    position,   \* p.position (1-based)
    Fields,     \* p.Fields: the top-level record, key -> value
    pc,         \* the statement of ParseLogLine / Parse that runs next
    err,        \* the error Parse is about to return (NoErr: none)
    ret,        \* what ParseLogLine returned: [returned, fields, err]
    called,     \* history: the calls made so far, [fn, at] with at the
                \* position at the call
    dropped,    \* history: the errors a sub-parser raised and its caller
                \* did not return
    drawn,      \* history: the input line as it was drawn, [family, shape]
    inserted,   \* history: the keys assigned in p.Fields, in the order of
                \* the assignments
    firstKey,   \* the key that a range over the map returned yields first,
                \* <<k>>; <<>> before the return and for no map
    machine     \* the machine the program is built for, "amd64" or "arm64"

vars ==
    <<Buffer, runes, position, Fields, pc, err, ret, called, dropped, drawn,
      inserted, firstKey, machine>>

(***************************************************************************)
(* Runes and the unicode classes the parser tests.                         *)
(***************************************************************************)
endRune == "<endRune>"

Space == {" ", "\t"}

\* The digits of a decimal numeral, '0' to '9'.
Decimal == {"0", "1", "2", "3", "4", "5", "6", "7", "8", "9"}

\* unicode.IsDigit: category Nd, which holds, e.g., U+0663.
Digit == Decimal \cup {"U+0663"}

Upper ==
    {"A", "B", "C", "D", "E", "F", "G", "H", "I", "J", "K", "L", "M",
     "N", "O", "P", "Q", "R", "S", "T", "U", "V", "W", "X", "Y", "Z"}

Lower ==
    {"a", "b", "c", "d", "e", "f", "g", "h", "i", "j", "k", "l", "m",
     "n", "o", "p", "q", "r", "s", "t", "u", "v", "w", "x", "y", "z"}

Letter == Upper \cup Lower \cup {"U+00E9"}

\* unicode.IsNumber: category N, which holds the digits and, e.g., U+00B2.
Number == Digit \cup {"U+00B2"}

\* utf8.RuneLen
RuneLen(r) == IF r \in {"U+00E9", "U+00B2", "U+0663"} THEN 2 ELSE 1

\* len(s) of a Go string: its length in bytes.
RECURSIVE GoLen(_)
GoLen(s) == IF s = <<>> THEN 0 ELSE RuneLen(Head(s)) + GoLen(Tail(s))

\* string(p.runes[i:j]) (1-based: the runes i .. j-1)
Slice(i, j) == SubSeq(runes, i, j - 1)

\* The text of a Go string: the texts of its two halves, joined.
RECURSIVE Str(_)
Str(s) ==
    IF s = <<>> THEN ""
    ELSE IF Len(s) = 1 THEN s[1]
    ELSE Str(SubSeq(s, 1, Len(s) \div 2))
             \o Str(SubSeq(s, Len(s) \div 2 + 1, Len(s)))

(***************************************************************************)
(* Results.  Every reader returns [st, pos, val]: st is "ok", "err" (val   *)
(* is the error) or "panic" (an index out of range); pos is p.position     *)
(* when it returns.                                                        *)
(***************************************************************************)
NoErr == "nil"

Ok(pos, val) == [st |-> "ok", pos |-> pos, val |-> val]

Fail(pos, e) == [st |-> "err", pos |-> pos, val |-> e]

Panic(pos) == [st |-> "panic", pos |-> pos, val |-> "index out of range"]

\* What a round of a loop leaves when the loop goes on: the next round starts
\* at pos, val being what the loop has built so far.
Continue(pos, val) == [st |-> "more", pos |-> pos, val |-> val]

\* p.runes[i] panics when i is past the buffer's end.
InBuffer(i) == i <= Len(runes)

(***************************************************************************)
(* Values of the record.                                                   *)
(***************************************************************************)
StringV(s) == [t |-> "string", s |-> s]

NumberV(m, e) == [t |-> "number", m |-> m, e |-> e]

BoolV(b) == [t |-> "bool", b |-> b]

NilV == [t |-> "nil"]

MapV(kv) == [t |-> "map", kv |-> kv]

ListV(items) == [t |-> "list", items |-> items]

TimeV(sec, nsec) == [t |-> "time", sec |-> sec, nsec |-> nsec]

\* make(map[string]interface{})
EmptyMap == <<>>

\* m[k] = v
Put(m, k, v) == [x \in (DOMAIN m) \cup {k} |-> IF x = k THEN v ELSE m[x]]

Has(m, k) == k \in DOMAIN m

(***************************************************************************)
(* The cursor's scans.                                                     *)
(***************************************************************************)
\* x := v; F(x): v is computed once, before F is.
Bind(v, F(_)) == CHOOSE r \in {F(x) : x \in {v}} : TRUE

\* for check(p.runes[end], S) { end++ }: the first index from i on whose
\* rune is not in S; endRune, the last rune, is in no class.
ScanWhile(i, S) ==
    CHOOSE end \in i..Len(runes) :
        /\ runes[end] \notin S
        /\ \A k \in i..(end - 1) : runes[k] \in S

\* for p.runes[end] != endRune && !in(S, p.runes[end]) { end++ }: the first
\* index from i on whose rune is endRune or in S.
ScanUntil(i, S) ==
    CHOOSE end \in i..Len(runes) :
        /\ runes[end] = endRune \/ runes[end] \in S
        /\ \A k \in i..(end - 1) : runes[k] # endRune /\ runes[k] \notin S

eatWhitespace(pos) == ScanWhile(pos, Space)

lookahead(pos, amount) == runes[pos + amount]

readUntil(pos, S) ==
    Bind(ScanUntil(pos, S), LAMBDA e :
        IF runes[e] = endRune
        THEN Fail(pos, "found end of line before expected unicode range")
        ELSE Ok(e, Slice(pos, e)))

readUntilRune(pos, untilRune) ==
    Bind(ScanUntil(pos, {untilRune}), LAMBDA e :
        IF runes[e] = endRune /\ untilRune # endRune
        THEN Fail(pos, "found end of line before expected rune")
        ELSE Ok(e, Slice(pos, e)))

readWhile(pos, checks) ==
    Bind(ScanWhile(pos, checks), LAMBDA e :
        IF runes[e] = endRune
        THEN Fail(pos, "unexpected end of line")
        ELSE Ok(e, Slice(pos, e)))

\* advance: the rune read is val, the position moves by one.
advance(pos) == Ok(pos + 1, runes[pos])

expect(pos, past) ==
    IF runes[pos] # past THEN Fail(pos + 1, "expected rune") ELSE Ok(pos + 1, past)

expectRange(pos, S, errStr) ==
    IF runes[pos] \notin S THEN Fail(pos + 1, errStr) ELSE Ok(pos + 1, runes[pos])

RECURSIVE matchAhead(_, _)
matchAhead(startIdx, s) ==
    \/ s = <<>>
    \/ /\ runes[startIdx] = Head(s)
       /\ matchAhead(startIdx + 1, Tail(s))

JSONIdentifierRunes == Letter \cup Digit \cup {"$", "_", ".", "*"}

readJSONIdentifier(pos) ==
    Bind(ScanWhile(pos, JSONIdentifierRunes), LAMBDA e : Ok(e, Slice(pos, e)))

readUpcaseIdentifier(pos) ==
    Bind(ScanWhile(pos, Upper \cup Digit \cup {"_"}), LAMBDA e :
        IF runes[e] \in Space \/ runes[e] = endRune
        THEN Ok(e, Slice(pos, e))
        ELSE Fail(pos, "rune is illegal in this context"))

readAlphaIdentifier(pos) ==
    Bind(ScanWhile(pos, Letter), LAMBDA e :
        IF runes[e] \in Space \/ runes[e] = endRune
        THEN Ok(e, Slice(pos, e))
        ELSE Fail(pos, "rune is illegal in this context"))

(***************************************************************************)
(* Numbers.  strconv.ParseFloat(s, 64) on a run of digits, '.', '+', '-',  *)
(* 'e', 'E': accepted is [+-] digits [. digits] [(e|E) [+-] digits] with a *)
(* digit in the mantissa.  The float64 is kept as the decimal m * 10^e     *)
(* with m not a multiple of 10 (0 is m = 0, e = 0), which is exact for the *)
(* short numerals of the model (below 2^53, exponents within range).       *)
(***************************************************************************)
DigitVal(c) ==
    CASE c = "0" -> 0 [] c = "1" -> 1 [] c = "2" -> 2 [] c = "3" -> 3
      [] c = "4" -> 4 [] c = "5" -> 5 [] c = "6" -> 6 [] c = "7" -> 7
      [] c = "8" -> 8 [] c = "9" -> 9

RECURSIVE DecVal(_)
DecVal(s) ==
    IF s = <<>> THEN 0
    ELSE DecVal(SubSeq(s, 1, Len(s) - 1)) * 10 + DigitVal(s[Len(s)])

RECURSIVE Norm(_, _)
Norm(m, e) ==
    IF m = 0 THEN NumberV(0, 0)
    ELSE IF m % 10 = 0 THEN Norm(m \div 10, e + 1)
    ELSE NumberV(m, e)

\* The float64 of the integer n.
Num(n) == Norm(n, 0)

RECURSIVE DigitsEnd(_, _)
DigitsEnd(s, i) ==
    IF i <= Len(s) /\ s[i] \in Decimal THEN DigitsEnd(s, i + 1) ELSE i

\* [ok, val]: i0 is where the mantissa starts, i1 where its integer digits
\* end, i2 where its fraction ends, j1 where the exponent's digits start
\* and j2 where they end.
ParseFloat(s) ==
    Bind(IF s # <<>> /\ s[1] \in {"+", "-"} THEN 2 ELSE 1, LAMBDA i0 :
    Bind(DigitsEnd(s, i0), LAMBDA i1 :
    Bind(IF i1 <= Len(s) /\ s[i1] = "." THEN DigitsEnd(s, i1 + 1) ELSE i1, LAMBDA i2 :
    Bind(SubSeq(s, i0, i1 - 1) \o SubSeq(s, i1 + 1, i2 - 1), LAMBDA ds :
    Bind(IF s # <<>> /\ s[1] = "-" THEN 0 - DecVal(ds) ELSE DecVal(ds), LAMBDA mant :
    Bind(IF i2 > i1 THEN i2 - i1 - 1 ELSE 0, LAMBDA nFrac :
    Bind(IF i2 + 1 <= Len(s) /\ s[i2 + 1] \in {"+", "-"} THEN i2 + 2 ELSE i2 + 1,
         LAMBDA j1 :
    Bind(DigitsEnd(s, j1), LAMBDA j2 :
        IF ds = <<>> THEN [ok |-> FALSE, val |-> Num(0)]
        ELSE IF i2 = Len(s) + 1 THEN [ok |-> TRUE, val |-> Norm(mant, 0 - nFrac)]
        ELSE IF s[i2] \in {"e", "E"} /\ j2 > j1 /\ j2 = Len(s) + 1
        THEN [ok |-> TRUE,
              val |-> Norm(mant, (IF s[i2 + 1] = "-"
                                  THEN 0 - DecVal(SubSeq(s, j1, j2 - 1))
                                  ELSE DecVal(SubSeq(s, j1, j2 - 1))) - nFrac)]
        ELSE [ok |-> FALSE, val |-> Num(0)]))))))))

NumberRunes == Digit \cup {".", "+", "-", "e", "E"}

\* A faulty readNumber, which returns 0 whatever the digits are: the numeric
\* fields of C7 must tell it from readNumber.
readNumberZero(pos) ==
    Bind(ScanWhile(pos, NumberRunes), LAMBDA e :
        IF runes[e] = endRune
        THEN Fail(pos, "found end of line before expected unicode range")
        ELSE Ok(e, Num(0)))

readNumber(pos) ==
    Bind(ScanWhile(pos, NumberRunes), LAMBDA e :
        IF runes[e] = endRune
        THEN Fail(pos, "found end of line before expected unicode range")
        ELSE Bind(ParseFloat(Slice(pos, e)), LAMBDA f :
            IF f.ok THEN Ok(e, f.val)
            ELSE Fail(e, "strconv.ParseFloat: invalid syntax")))

\* A faulty readDuration, which looks for the 'm' only and takes the rune after
\* it for the 's': C28 must tell it from readDuration.
readDurationAnyUnit(pos) ==
    Bind(ScanWhile(pos, Digit), LAMBDA e :
        IF runes[e] # "m"
        THEN Fail(pos, "invalid duration specifier")
        ELSE Bind(ParseFloat(Slice(pos, e)), LAMBDA f :
            IF f.ok THEN Ok(e + 2, f.val)
            ELSE Fail(e + 2, "strconv.ParseFloat: invalid syntax")))

readDuration(pos) ==
    Bind(ScanWhile(pos, Digit), LAMBDA e :
        IF runes[e] # "m" \/ runes[e + 1] # "s"
        THEN Fail(pos, "invalid duration specifier")
        ELSE Bind(ParseFloat(Slice(pos, e)), LAMBDA f :
            IF f.ok THEN Ok(e + 2, f.val)
            ELSE Fail(e + 2, "strconv.ParseFloat: invalid syntax")))

(***************************************************************************)
(* The document-value parser.                                              *)
(***************************************************************************)
Quote == "\""

Apostrophe == "'"

\* A faulty set of hex runes, without the upper-case ones: C23 must tell it
\* from HexRunes.
HexRunesLower == Decimal \cup {"a", "b", "c", "d", "e", "f"}

HexRunes ==
    Decimal \cup {"A", "B", "C", "D", "E", "F", "a", "b", "c", "d", "e", "f"}

\* "\", " and "...\", ", the two ends of a mis-quoted JSON blob.
EmbeddedEnd == <<Quote, ",", " ">>

EmbeddedCut == <<".", ".", ".", Quote, ",", " ">>

\* A faulty parseStringValue, which takes a quote after a backslash as a
\* rune of the string: C27 must tell it from parseStringValue.
parseStringValueEscaped(pos, quote) ==
    Bind(CHOOSE e \in (pos + 1)..Len(runes) :
             /\ runes[e] = endRune \/ (runes[e] = quote /\ runes[e - 1] # "\\")
             /\ \A k \in (pos + 1)..(e - 1) :
                    runes[k] # endRune /\ (runes[k] # quote \/ runes[k - 1] = "\\"),
         LAMBDA e :
        IF runes[e] = endRune
        THEN Fail(pos + 1, "found end of line before expected rune")
        ELSE Ok(e + 1, Slice(pos + 1, e)))

parseStringValue(pos, quote) ==
    Bind(readUntilRune(pos + 1, quote), LAMBDA r :
        IF r.st = "ok" THEN Ok(r.pos + 1, r.val) ELSE Fail(pos + 1, r.val))

\* A Go string read by r, as a value.
AsStringV(r) == IF r.st = "ok" THEN Ok(r.pos, StringV(Str(r.val))) ELSE r

\* Go's integer / and % truncate towards zero.
TruncDiv(a, b) == IF a >= 0 THEN a \div b ELSE 0 - ((0 - a) \div b)

TruncMod(a, b) == a - b * TruncDiv(a, b)

RECURSIVE Pow10(_)
Pow10(n) == IF n <= 0 THEN 1 ELSE 10 * Pow10(n - 1)

\* math.Floor(x) == x for the float64 m * 10^e
IsIntegral(v) == v.e >= 0

\* int64(x) for an integral float64 within the int64 range
Int64(v) == v.m * Pow10(v.e)

\* time.Unix(int64(x) / 1000, int64(x) % 1000 * 1000000) for an integral
\* float64 of 10^19 or more, or of -10^19 or less: no int64 is x, and the
\* conversion yields what the machine's instruction does, the smallest int64
\* (-9223372036854775808) on amd64 whatever the sign, the nearest int64 on
\* arm64.  Seconds beyond the integers of the model are written in digits.
UnixOutOfRange(v) ==
    IF machine = "arm64" /\ v.m > 0
    THEN TimeV("9223372036854775", 807000000)
    ELSE TimeV("-9223372036854776", 192000000)

\* time.Unix(sec, nsec): nsec outside [0, 1e9) is carried into sec.
Unix(sec, nsec) ==
    IF nsec < 0 THEN TimeV(sec - 1, nsec + 1000000000) ELSE TimeV(sec, nsec)

\* One round of the scan of a value that starts with "{ : start is where the
\* value starts, e is endPosition.
embeddedStep(start, e, quoted) ==
    IF ~quoted /\ matchAhead(e, EmbeddedEnd)
    THEN Ok(e + 1, StringV(Str(Slice(start, e + 1))))
    ELSE IF quoted /\ matchAhead(e, EmbeddedCut)
    THEN Ok(e + 4, StringV(Str(Slice(start, e + 4))))
    ELSE IF runes[e + 1] = endRune
    THEN Fail(start, "unexpected end of line reading json value")
    ELSE Continue(e + 1, IF runes[e] = Quote THEN ~quoted ELSE quoted)

\* The scan, up to the ',' that ends the value.
RECURSIVE embeddedScan(_, _, _)
embeddedScan(start, e, quoted) ==
    Bind(embeddedStep(start, e, quoted), LAMBDA r :
        IF r.st = "more" THEN embeddedScan(start, r.pos, r.val) ELSE r)

\* new Date(n), the cursor after "new"
newDate(pos) ==
    Bind(readJSONIdentifier(eatWhitespace(pos)), LAMBDA id :
    IF Str(id.val) # "Date" THEN Fail(id.pos, "unexpected constructor")
    ELSE Bind(expect(id.pos, "("), LAMBDA lp :
    IF lp.st # "ok" THEN lp
    ELSE Bind(readNumber(lp.pos), LAMBDA n :
    IF n.st # "ok" THEN n
    ELSE Bind(expect(n.pos, ")"), LAMBDA rp :
    IF rp.st # "ok" THEN rp
    ELSE IF ~IsIntegral(n.val) THEN Fail(rp.pos, "expected int in new Date()")
    ELSE IF n.val.e >= 19 THEN Ok(rp.pos, UnixOutOfRange(n.val))
    ELSE Bind(Int64(n.val), LAMBDA ms :
        Ok(rp.pos, Unix(TruncDiv(ms, 1000), TruncMod(ms, 1000) * 1000000)))))))

\* Timestamp(...) or Timestamp 1|2, the cursor after "Timestamp"
timestampValue(pos) ==
    IF lookahead(pos, 0) = "("
    THEN AsStringV(readUntilRune(pos, ")"))
    ELSE AsStringV(readWhile(eatWhitespace(pos), Digit \cup {"|"}))

\* A faulty objectIdValue, which keeps the quotes around the hex digits: C10
\* must tell it from objectIdValue.
objectIdValueQuoted(pos) ==
    Bind(expect(pos, "("), LAMBDA lp :
    IF lp.st # "ok" THEN lp
    ELSE Bind(lookahead(lp.pos, 0), LAMBDA quote :
    IF quote # Apostrophe /\ quote # Quote
    THEN Fail(lp.pos, "expected quote in ObjectId")
    ELSE Bind(readWhile(lp.pos + 1, HexRunes), LAMBDA hex :
    IF hex.st # "ok" THEN hex
    ELSE Bind(expect(hex.pos, quote), LAMBDA q2 :
    IF q2.st # "ok" THEN q2
    ELSE Bind(expect(q2.pos, ")"), LAMBDA rp :
    IF rp.st # "ok" THEN rp
    ELSE Ok(rp.pos, StringV(Str(Slice(lp.pos, q2.pos)))))))))

\* ObjectId('hex') or ObjectId("hex"), the cursor after "ObjectId"
objectIdValue(pos) ==
    Bind(expect(pos, "("), LAMBDA lp :
    IF lp.st # "ok" THEN lp
    ELSE Bind(lookahead(lp.pos, 0), LAMBDA quote :
    IF quote # Apostrophe /\ quote # Quote
    THEN Fail(lp.pos, "expected quote in ObjectId")
    ELSE Bind(readWhile(lp.pos + 1, HexRunes), LAMBDA hex :
    IF hex.st # "ok" THEN hex
    ELSE Bind(expect(hex.pos, quote), LAMBDA q2 :
    IF q2.st # "ok" THEN q2
    ELSE Bind(expect(q2.pos, ")"), LAMBDA rp :
    IF rp.st # "ok" THEN rp
    ELSE Ok(rp.pos, StringV(Str(hex.val))))))))

RECURSIVE parseJSONValue(_)
RECURSIVE mapLoop(_, _)
RECURSIVE arrayLoop(_, _)

\* parseJSONMap: the cursor is taken to be on the '{' and moves past it.
parseJSONMap(pos) == mapLoop(pos + 1, EmptyMap)

\* The end of a round of parseJSONMap's loop: the cursor p4 is on the rune
\* that must be '}' or ','.
mapSeparator(p4, rv) ==
    IF lookahead(p4, 0) = "}" THEN Ok(p4 + 1, MapV(rv))
    ELSE IF lookahead(p4, 0) = "," THEN Continue(p4 + 1, rv)
    ELSE Fail(p4, "expected '}' or ',' in json")

\* A faulty round of parseJSONMap's loop, which keeps the first value of a
\* key that comes twice: C20 must tell it from mapRound.
mapRoundKeepFirst(pos, rv) ==
    IF ~InBuffer(pos) THEN Panic(pos)
    ELSE
    Bind(eatWhitespace(pos), LAMBDA p1 :
    Bind(IF lookahead(p1, 0) = Quote \/ lookahead(p1, 0) = Apostrophe
         THEN parseStringValue(p1, lookahead(p1, 0))
         ELSE readJSONIdentifier(p1), LAMBDA key :
    IF key.st # "ok" THEN key
    ELSE IF key.val = <<>> THEN mapSeparator(eatWhitespace(key.pos), rv)
    ELSE Bind(expect(eatWhitespace(key.pos), ":"), LAMBDA colon :
    IF colon.st # "ok" THEN colon
    ELSE Bind(parseJSONValue(eatWhitespace(colon.pos)), LAMBDA value :
    IF value.st # "ok" THEN value
    ELSE mapSeparator(eatWhitespace(value.pos),
                      IF Has(rv, Str(key.val)) THEN rv
                      ELSE Put(rv, Str(key.val), value.val))))))

\* One round of parseJSONMap's loop, rv being the map built so far.
mapRound(pos, rv) ==
    IF ~InBuffer(pos) THEN Panic(pos)
    ELSE
    Bind(eatWhitespace(pos), LAMBDA p1 :
    Bind(IF lookahead(p1, 0) = Quote \/ lookahead(p1, 0) = Apostrophe
         THEN parseStringValue(p1, lookahead(p1, 0))
         ELSE readJSONIdentifier(p1), LAMBDA key :
    IF key.st # "ok" THEN key
    ELSE IF key.val = <<>> THEN mapSeparator(eatWhitespace(key.pos), rv)
    ELSE Bind(expect(eatWhitespace(key.pos), ":"), LAMBDA colon :
    IF colon.st # "ok" THEN colon
    ELSE Bind(parseJSONValue(eatWhitespace(colon.pos)), LAMBDA value :
    IF value.st # "ok" THEN value
    ELSE mapSeparator(eatWhitespace(value.pos),
                      Put(rv, Str(key.val), value.val))))))

\* parseJSONMap's loop.
mapLoop(pos, rv) ==
    Bind(mapRound(pos, rv), LAMBDA r :
        IF r.st = "more" THEN mapLoop(r.pos, r.val) ELSE r)

parseJSONArray(pos) ==
    Bind(eatWhitespace(pos + 1), LAMBDA p1 :
        IF lookahead(p1, 0) = "]" THEN Ok(p1 + 1, ListV(<<>>))
        ELSE arrayLoop(p1, <<>>))

\* A faulty round of parseJSONArray's loop, which puts the value before the
\* ones read so far: C21 must tell it from arrayRound.
arrayRoundReversed(pos, rv) ==
    Bind(parseJSONValue(pos), LAMBDA value :
    IF value.st # "ok" THEN value
    ELSE Bind(eatWhitespace(value.pos), LAMBDA p2 :
        IF lookahead(p2, 0) = "]" THEN Ok(p2 + 1, ListV(<<value.val>> \o rv))
        ELSE IF lookahead(p2, 0) = ","
        THEN Continue(eatWhitespace(p2 + 1), <<value.val>> \o rv)
        ELSE Fail(p2, "expected ']' or ',' in json")))

\* One round of parseJSONArray's loop, rv being the list built so far.
arrayRound(pos, rv) ==
    Bind(parseJSONValue(pos), LAMBDA value :
    IF value.st # "ok" THEN value
    ELSE Bind(eatWhitespace(value.pos), LAMBDA p2 :
        IF lookahead(p2, 0) = "]" THEN Ok(p2 + 1, ListV(Append(rv, value.val)))
        ELSE IF lookahead(p2, 0) = ","
        THEN Continue(eatWhitespace(p2 + 1), Append(rv, value.val))
        ELSE Fail(p2, "expected ']' or ',' in json")))

\* parseJSONArray's loop.
arrayLoop(pos, rv) ==
    Bind(arrayRound(pos, rv), LAMBDA r :
        IF r.st = "more" THEN arrayLoop(r.pos, r.val) ELSE r)

\* The value that starts with a letter: the identifier id has been read.
identifierValue(id) ==
    CASE Str(id.val) = "null" -> Ok(id.pos, NilV)
      [] Str(id.val) = "true" -> Ok(id.pos, BoolV(TRUE))
      [] Str(id.val) = "false" -> Ok(id.pos, BoolV(FALSE))
      [] Str(id.val) = "new" -> newDate(id.pos)
      [] Str(id.val) = "Timestamp" -> timestampValue(id.pos)
      [] Str(id.val) = "ObjectId" -> objectIdValue(id.pos)
      [] OTHER -> Fail(id.pos, "unexpected start of JSON value")

parseJSONValue(pos) ==
    Bind(lookahead(pos, 0), LAMBDA c :
        IF c = "{" THEN parseJSONMap(pos)
        ELSE IF c = "[" THEN parseJSONArray(pos)
        ELSE IF c \in Digit \cup {"-", "+", "."} THEN readNumber(pos)
        ELSE IF c = Quote
        THEN IF lookahead(pos, 1) # "{"
             THEN AsStringV(parseStringValue(pos, c))
             ELSE embeddedScan(pos + 1, pos + 1, FALSE)
        ELSE IF c \in Letter THEN identifierValue(readJSONIdentifier(pos))
        ELSE Fail(pos, "unexpected start character for JSON value of field"))

(***************************************************************************)
(* The log-line parser.                                                    *)
(***************************************************************************)

\* The string a reader returned: "" beside an error.
StrOf(r) == IF r.st = "ok" THEN r.val ELSE <<>>

\* validDayOfWeek and validMonth test len(s), a number of bytes, and drop
\* the error of the read they are handed.
validDayOfWeek(r) ==
    IF GoLen(StrOf(r)) # 3 THEN Fail(r.pos, "invalid day of week")
    ELSE Ok(r.pos, StrOf(r))

validMonth(r) ==
    IF GoLen(StrOf(r)) # 3 THEN Fail(r.pos, "invalid month")
    ELSE Ok(r.pos, StrOf(r))

\* The ctime branch of parseTimestamp, the cursor on the first token.
ctimeTimestamp(p0) ==
    Bind(validDayOfWeek(readUntil(p0, Space)), LAMBDA dayOfWeek :
    IF dayOfWeek.st # "ok" THEN dayOfWeek
    ELSE Bind(validMonth(readUntil(eatWhitespace(dayOfWeek.pos), Space)),
              LAMBDA month :
    IF month.st # "ok" THEN month
    ELSE Bind(readUntil(eatWhitespace(month.pos), Space), LAMBDA day :
    IF day.st # "ok" THEN day
    ELSE Bind(readUntil(eatWhitespace(day.pos), Space), LAMBDA time :
    IF time.st # "ok" THEN time
    ELSE Ok(time.pos,
            dayOfWeek.val \o <<" ">> \o month.val \o <<" ">>
                \o day.val \o <<" ">> \o time.val)))))

parseTimestamp(pos) ==
    Bind(eatWhitespace(pos), LAMBDA p0 :
        IF lookahead(p0, 0) \in Number THEN readUntil(p0, Space)
        ELSE ctimeTimestamp(p0))

\* A faulty severityToString, which has the strings of W and E the wrong way
\* round: C12 must tell it from severityToString.
severityToStringSwapped(sev) ==
    CASE sev = "D" -> Ok(0, "debug")
      [] sev = "I" -> Ok(0, "informational")
      [] sev = "W" -> Ok(0, "error")
      [] sev = "E" -> Ok(0, "warning")
      [] sev = "F" -> Ok(0, "fatal")
      [] OTHER -> Fail(0, "unknown severity")

severityToString(sev) ==
    CASE sev = "D" -> Ok(0, "debug")
      [] sev = "I" -> Ok(0, "informational")
      [] sev = "W" -> Ok(0, "warning")
      [] sev = "E" -> Ok(0, "error")
      [] sev = "F" -> Ok(0, "fatal")
      [] OTHER -> Fail(0, "unknown severity")

\* parseSeverity: val is the string assigned to p.Fields["severity"], which
\* is "" when severityToString fails.
parseSeverity(pos) ==
    Bind(advance(eatWhitespace(pos)), LAMBDA a :
    Bind(severityToString(a.val), LAMBDA sev :
    IF sev.st # "ok"
    THEN [st |-> "err", pos |-> a.pos, val |-> "", err |-> sev.val]
    ELSE Bind(expectRange(a.pos, Space, "expected space after severity"),
              LAMBDA sp :
        IF sp.st # "ok"
        THEN [st |-> "err", pos |-> sp.pos, val |-> sev.val, err |-> sp.val]
        ELSE [st |-> "ok", pos |-> sp.pos, val |-> sev.val, err |-> NoErr])))

parseComponent(pos) ==
    Bind(eatWhitespace(pos), LAMBDA p0 :
        IF lookahead(p0, 0) = "-" THEN Ok(p0 + 1, <<"-">>)
        ELSE readAlphaIdentifier(p0))

parseContext(pos) ==
    Bind(expect(eatWhitespace(pos), "["), LAMBDA lb :
    IF lb.st # "ok" THEN lb
    ELSE Bind(readUntilRune(lb.pos, "]"), LAMBDA ctx :
        IF ctx.st # "ok" THEN ctx ELSE Ok(ctx.pos + 1, ctx.val)))

isOperationName(s) ==
    Str(s) \in {"query", "getmore", "insert", "update", "remove", "command"}

\* What parsePlanSummaryElement returns: elem is <<>> for Go's nil, else
\* <<the map>>; lost holds the error that "return nil, nil" drops.
Element(st, pos, elem, lost) ==
    [st |-> st, pos |-> pos, elem |-> elem, lost |-> lost]

\* rv[stage], err = p.parseJSONMap(), m being what parseJSONMap returned.
stageMap(stage, m) ==
    IF m.st = "ok"
    THEN Element("ok", m.pos, <<MapV(Put(EmptyMap, Str(stage.val), m.val))>>, <<>>)
    ELSE IF m.st = "panic" THEN Element("panic", m.pos, <<>>, <<>>)
    ELSE Element("ok", m.pos, <<>>, <<m.val>>)

parsePlanSummaryElement(pos) ==
    Bind(eatWhitespace(pos), LAMBDA savedPosition :
    Bind(readUpcaseIdentifier(savedPosition), LAMBDA stage :
    IF stage.st # "ok" THEN Element("ok", savedPosition, <<>>, <<>>)
    ELSE Bind(eatWhitespace(stage.pos), LAMBDA p1 :
        IF lookahead(p1, 0) = "{" THEN stageMap(stage, parseJSONMap(p1))
        ELSE Element("ok", p1,
                     <<MapV(Put(EmptyMap, Str(stage.val), BoolV(TRUE)))>>,
                     <<>>))))

\* What parsePlanSummary returns, with the errors its elements dropped.
Summary(st, pos, val, lost) ==
    [st |-> st, pos |-> pos, val |-> val, lost |-> lost]

\* One round of parsePlanSummary's loop, rv being the list built so far and
\* lost the errors dropped so far; st is "more" when the loop goes on.
planSummaryRound(pos, rv, lost) ==
    Bind(parsePlanSummaryElement(pos), LAMBDA el :
    IF el.st = "panic" \/ ~InBuffer(el.pos)
    THEN Summary("panic", el.pos, "index out of range", lost \o el.lost)
    ELSE Bind(eatWhitespace(el.pos), LAMBDA p1 :
        IF lookahead(p1, 0) # ","
        THEN Summary("ok", p1, ListV(rv \o el.elem), lost \o el.lost)
        ELSE Summary("more", p1 + 1, rv \o el.elem, lost \o el.lost)))

\* parsePlanSummary's loop.
RECURSIVE planSummaryLoop(_, _, _)
planSummaryLoop(pos, rv, lost) ==
    Bind(planSummaryRound(pos, rv, lost), LAMBDA r :
        IF r.st = "more" THEN planSummaryLoop(r.pos, r.val, r.lost) ELSE r)

parsePlanSummary(pos) == planSummaryLoop(eatWhitespace(pos), <<>>, <<>>)

\* What parseFieldAndValue returns, with p.Fields and the errors dropped.
FieldResult(st, pos, done, fields, e, lost) ==
    [st |-> st, pos |-> pos, done |-> done, fields |-> fields, err |-> e,
     lost |-> lost]

\* A faulty storeField, which takes the last token of what was read up to
\* the ':' as the name: C19 must tell it from storeField.
storeFieldLastToken(fieldName, v, fields, lost) ==
    Bind(CHOOSE k \in 0..Len(fieldName) :
             /\ k = 0 \/ fieldName[k] \in Space
             /\ \A j \in (k + 1)..Len(fieldName) : fieldName[j] \notin Space,
         LAMBDA k :
        IF v.st = "ok"
        THEN FieldResult("ok", v.pos, FALSE,
                         Put(fields, Str(SubSeq(fieldName, k + 1, Len(fieldName))),
                             v.val),
                         NoErr, lost)
        ELSE FieldResult(v.st, v.pos, FALSE, fields, v.val, lost))

\* p.Fields[fieldName] = fieldValue, v being what the value's reader
\* returned.
storeField(fieldName, v, fields, lost) ==
    IF v.st = "ok"
    THEN FieldResult("ok", v.pos, FALSE, Put(fields, Str(fieldName), v.val),
                     NoErr, lost)
    ELSE FieldResult(v.st, v.pos, FALSE, fields, v.val, lost)

\* The value of the field "planSummary".
planSummaryValue(fieldName, pos, fields) ==
    Bind(parsePlanSummary(pos), LAMBDA plan :
        storeField(fieldName, plan, fields, plan.lost))

\* The value of the field "command".
commandValue(fieldName, pos, fields) ==
    IF lookahead(pos, 0) = "{"
    THEN storeField(fieldName, parseJSONMap(pos), fields, <<>>)
    ELSE Bind(readJSONIdentifier(pos), LAMBDA name :
        storeField(fieldName, parseJSONMap(eatWhitespace(name.pos)),
                   Put(fields, "command_type", StringV(Str(name.val))), <<>>))

\* A faulty plainValue, which takes a sign for the start of a number as the
\* document-value parser does: C29 must tell it from plainValue.
plainValueSigned(pos) ==
    Bind(lookahead(pos, 0), LAMBDA firstCharInVal :
        IF firstCharInVal = "{" THEN parseJSONMap(pos)
        ELSE IF firstCharInVal \in Digit \cup {"-", "+"} THEN readNumber(pos)
        ELSE IF firstCharInVal = Quote
        THEN AsStringV(parseStringValue(pos, firstCharInVal))
        ELSE Fail(pos, "unexpected start character for value of field"))

\* The value of a field other than planSummary and command.
plainValue(pos) ==
    Bind(lookahead(pos, 0), LAMBDA firstCharInVal :
        IF firstCharInVal = "{" THEN parseJSONMap(pos)
        ELSE IF firstCharInVal \in Digit THEN readNumber(pos)
        ELSE IF firstCharInVal = Quote
        THEN AsStringV(parseStringValue(pos, firstCharInVal))
        ELSE Fail(pos, "unexpected start character for value of field"))

\* The value of the field fieldName, the cursor on its first rune.
fieldValue(fieldName, p1, fields) ==
    IF Str(fieldName) = "planSummary" THEN planSummaryValue(fieldName, p1, fields)
    ELSE IF Str(fieldName) = "command" THEN commandValue(fieldName, p1, fields)
    ELSE storeField(fieldName, plainValue(p1), fields, <<>>)

\* A faulty parseFieldAndValue, which saves the position before it skips the
\* whitespace and so backtracks too far: C14 must tell it from
\* parseFieldAndValue.
parseFieldAndValueEarlySave(pos, fields) ==
    Bind(eatWhitespace(pos), LAMBDA p0 :
    Bind(readUntilRune(p0, ":"), LAMBDA fieldName :
        IF fieldName.st # "ok"
        THEN FieldResult("ok", pos, TRUE, fields, NoErr, <<>>)
        ELSE fieldValue(fieldName.val, eatWhitespace(fieldName.pos + 1), fields)))

parseFieldAndValue(pos, fields) ==
    Bind(eatWhitespace(pos), LAMBDA savedPosition :
    Bind(readUntilRune(savedPosition, ":"), LAMBDA fieldName :
        IF fieldName.st # "ok"
        THEN FieldResult("ok", savedPosition, TRUE, fields, NoErr, <<>>)
        ELSE fieldValue(fieldName.val, eatWhitespace(fieldName.pos + 1), fields)))

(***************************************************************************)
(* The document parser that peg generated (package logdoc, LogDocParser).  *)
(* A rule is a function of the position it starts at: it returns the       *)
(* position after its match, or NoMatch, the rule's own position being     *)
(* restored.  The parser's buffer is the text followed by end_symbol,      *)
(* which no rune of a text equals: the buffer is runes, endRune being      *)
(* end_symbol.  The actions push values and do not decide a match.         *)
(***************************************************************************)
NoMatch == 0

\* if !matchDot() { goto ... }
matchDot(pos) == IF runes[pos] # endRune THEN pos + 1 ELSE NoMatch

\* if buffer[position] != rune(c) { goto ... }; position++, for the runes of
\* s in turn
RECURSIVE matchRunes(_, _)
matchRunes(pos, s) ==
    IF s = <<>> THEN pos
    ELSE IF runes[pos] # Head(s) THEN NoMatch
    ELSE matchRunes(pos + 1, Tail(s))

\* e?: the position after e, or where e started
Optional(pos, after) == IF after = NoMatch THEN pos ELSE after

\* 17 BinData, 19 TimestampVal, 20 NumberLong <- name '(' <(!')' .)+> ')',
\* the runes name being the name and the '('
ruleConstructor(pos, name) ==
    Bind(matchRunes(pos, name), LAMBDA p1 :
        IF p1 = NoMatch THEN NoMatch
        ELSE Bind(ScanUntil(p1, {")"}), LAMBDA e :
            IF e > p1 /\ runes[e] = ")" THEN e + 1 ELSE NoMatch))

\* 29 S <- ' '
ruleS(pos) == matchRunes(pos, <<" ">>)

\* 7 Field <- <fieldChar+> ':', 28 fieldChar <- [$*._] | [0-9] | [A-Z] | [a-z]
ruleField(pos) ==
    Bind(ScanWhile(pos, {"$", "*", ".", "_"} \cup Decimal \cup Upper \cup Lower),
         LAMBDA e :
        IF e > pos /\ runes[e] = ":" THEN e + 1 ELSE NoMatch)

\* 9 Numeric <- '-'? [0-9]+ '.'? [0-9]*
ruleNumeric(pos) ==
    Bind(Optional(pos, matchRunes(pos, <<"-">>)), LAMBDA p1 :
        IF runes[p1] \notin Decimal THEN NoMatch
        ELSE Bind(ScanWhile(p1, Decimal), LAMBDA p2 :
             ScanWhile(Optional(p2, matchRunes(p2, <<".">>)), Decimal)))

\* 27 stringChar*, stringChar <- (!('"' / '\\') .) / ('\\' ('"' / '\\'))
RECURSIVE stringChars(_)
stringChars(pos) ==
    IF runes[pos] \notin {Quote, "\\"}
    THEN IF matchDot(pos) = NoMatch THEN pos ELSE stringChars(pos + 1)
    ELSE IF runes[pos] = "\\" /\ runes[pos + 1] \in {Quote, "\\"}
    THEN stringChars(pos + 2)
    ELSE pos

\* 11 String <- '"' <stringChar*> '"'
ruleString(pos) ==
    IF runes[pos] # Quote THEN NoMatch
    ELSE matchRunes(stringChars(pos + 1), <<Quote>>)

\* 10 Boolean <- True / False
ruleBoolean(pos) ==
    Bind(matchRunes(pos, <<"t","r","u","e">>), LAMBDA t :
        IF t # NoMatch THEN t ELSE matchRunes(pos, <<"f","a","l","s","e">>))

\* 15 Date <- ('n' 'e' 'w' ' ')? ('D' 'a' 't' 'e' '(') <[0-9]+> ')'
ruleDate(pos) ==
    Bind(matchRunes(Optional(pos, matchRunes(pos, <<"n","e","w"," ">>)), <<"D","a","t","e","(">>),
         LAMBDA p1 :
        IF p1 = NoMatch THEN NoMatch
        ELSE IF runes[p1] \notin Decimal THEN NoMatch
        ELSE matchRunes(ScanWhile(p1, Decimal), <<")">>))

\* 16 ObjectID <- 'O' 'b' 'j' 'e' 'c' 't' 'I' 'd' '(' '"' <hexChar*> ('"' ')')
ruleObjectID(pos) ==
    Bind(matchRunes(pos, <<"O","b","j","e","c","t","I","d","(","\"">>), LAMBDA p1 :
        IF p1 = NoMatch THEN NoMatch
        ELSE matchRunes(ScanWhile(p1, HexRunes), <<Quote, ")">>))

\* 18 Regex <- '/' <regexBody>, 26 regexBody <- regexChar+ '/' [smig]*
ruleRegex(pos) ==
    IF runes[pos] # "/" THEN NoMatch
    ELSE Bind(ScanUntil(pos + 1, {"/"}), LAMBDA e :
        IF e > pos + 1 /\ runes[e] = "/"
        THEN ScanWhile(e + 1, {"s", "m", "i", "g"})
        ELSE NoMatch)

RECURSIVE ruleValue(_)
RECURSIVE ruleDoc(_)
RECURSIVE ruleDocElements(_)
RECURSIVE ruleListElements(_)

\* 6 ListElem <- S? Value S?
ruleListElem(pos) ==
    Bind(ruleValue(Optional(pos, ruleS(pos))), LAMBDA v :
        IF v = NoMatch THEN NoMatch ELSE Optional(v, ruleS(v)))

\* 3 DocElem <- S? Field S? Value S?
ruleDocElem(pos) ==
    Bind(ruleField(Optional(pos, ruleS(pos))), LAMBDA f :
        IF f = NoMatch THEN NoMatch
        ELSE Bind(ruleValue(Optional(f, ruleS(f))), LAMBDA v :
            IF v = NoMatch THEN NoMatch ELSE Optional(v, ruleS(v))))

\* (',' ListElem)*, pos being the position after the elements matched
ruleListElements(pos) ==
    IF runes[pos] # "," THEN pos
    ELSE Bind(ruleListElem(pos + 1), LAMBDA next :
        IF next = NoMatch THEN pos ELSE ruleListElements(next))

\* 4 List <- '[' ListElements? ']', 5 ListElements <- ListElem (',' ListElem)*
ruleList(pos) ==
    IF runes[pos] # "[" THEN NoMatch
    ELSE Bind(ruleListElem(pos + 1), LAMBDA first :
        matchRunes(IF first = NoMatch THEN pos + 1 ELSE ruleListElements(first),
                   <<"]">>))

\* (',' DocElem)*, pos being the position after the elements matched
ruleDocElements(pos) ==
    IF runes[pos] # "," THEN pos
    ELSE Bind(ruleDocElem(pos + 1), LAMBDA next :
        IF next = NoMatch THEN pos ELSE ruleDocElements(next))

\* 1 Doc <- '{' DocElements? '}', 2 DocElements <- DocElem (',' DocElem)*
ruleDoc(pos) ==
    IF runes[pos] # "{" THEN NoMatch
    ELSE Bind(ruleDocElem(pos + 1), LAMBDA first :
        matchRunes(IF first = NoMatch THEN pos + 1 ELSE ruleDocElements(first),
                   <<"}">>))

\* 8 Value <- Null / MinKey / (switch buffer[position]: MaxKey, Undefined,
\* NumberLong, Regex, TimestampVal, BinData, Date, ObjectID, String, Boolean,
\* List, Doc, and Numeric by default)
ruleValue(pos) ==
    Bind(matchRunes(pos, <<"n","u","l","l">>), LAMBDA null :
    IF null # NoMatch THEN null
    ELSE Bind(matchRunes(pos, <<"M","i","n","K","e","y">>), LAMBDA minKey :
    IF minKey # NoMatch THEN minKey
    ELSE CASE runes[pos] = "M" -> matchRunes(pos, <<"M","a","x","K","e","y">>)
           [] runes[pos] = "u" -> matchRunes(pos, <<"u","n","d","e","f","i","n","e","d">>)
           [] runes[pos] = "N" -> ruleConstructor(pos, <<"N","u","m","b","e","r","L","o","n","g","(">>)
           [] runes[pos] = "/" -> ruleRegex(pos)
           [] runes[pos] = "T" -> ruleConstructor(pos, <<"T","i","m","e","s","t","a","m","p","(">>)
           [] runes[pos] = "B" -> ruleConstructor(pos, <<"B","i","n","D","a","t","a","(">>)
           [] runes[pos] \in {"D", "n"} -> ruleDate(pos)
           [] runes[pos] = "O" -> ruleObjectID(pos)
           [] runes[pos] = Quote -> ruleString(pos)
           [] runes[pos] \in {"f", "t"} -> ruleBoolean(pos)
           [] runes[pos] = "[" -> ruleList(pos)
           [] runes[pos] = "{" -> ruleDoc(pos)
           [] OTHER -> ruleNumeric(pos)))

\* 0 LogDoc <- Doc !.
ruleLogDoc(pos) ==
    Bind(ruleDoc(pos), LAMBDA doc :
        IF doc = NoMatch THEN NoMatch
        ELSE IF matchDot(doc) # NoMatch THEN NoMatch
        ELSE doc)

(***************************************************************************)
(* The input lines.  A line is a text (a timestamp, the text up to the     *)
(* message and a message, each drawn from a set of well-formed and         *)
(* malformed texts, or one of the specification's scenarios), an operation *)
(* line with numeric fields only, or an operation line with one ObjectId.  *)
(***************************************************************************)
Heads ==
    {<<"2","0","1","6","-","0","1","-","0","1","T","0","0",":","0","0",":","0","0",".","0","0","0","Z">>,  \* '2016-01-01T00:00:00.000Z'
     <<"W","e","d"," ","N","o","v"," "," ","4"," ","1","2",":","0","0",":","0","0">>,  \* 'Wed Nov  4 12:00:00'
     <<"\t","W","e","d"," ","N","o","v"," ","4","\t","1","2",":","0","0">>,  \* '<TAB>Wed Nov 4<TAB>12:00'
     <<"W","e"," ","N","o","v"," ","4"," ","1","2",":","0","0">>,  \* 'We Nov 4 12:00'
     <<"W","e","d"," ","N","o","v","e"," ","4"," ","1","2",":","0","0">>,  \* 'Wed Nove 4 12:00'
     <<"U+00E9","a"," ","N","o","v"," ","4"," ","1","2",":","0","0">>,  \* '<U+00E9>a Nov 4 12:00'
     <<"W","U+00E9","d"," ","N","o","v"," ","4"," ","1","2",":","0","0">>,  \* 'W<U+00E9>d Nov 4 12:00'
     <<"U+00B2","0","1","6">>,  \* '<U+00B2>016'
     <<>>,  \* ''
     <<"W","e","d"," ","N","o","v"," ","4">>}  \* 'Wed Nov 4'

Mids ==
    {<<" ","I"," ","Q","U","E","R","Y"," ","[","c","o","n","n","1","]"," ">>,  \* ' I QUERY [conn1] '
     <<" "," ","F"," ","C","O","N","T","R","O","L"," ","[","m","a","i","n","]"," ">>,  \* '  F CONTROL [main] '
     <<" ","[","c","o","n","n","1","]"," ">>,  \* ' [conn1] '
     <<" ","X"," ","Q","U","E","R","Y"," ","[","c","]"," ">>,  \* ' X QUERY [c] '
     <<" ","W"," ","-"," ","[","c","]">>,  \* ' W - [c]'
     <<" ","I","Q","U","E","R","Y"," ","[","c","]"," ">>,  \* ' IQUERY [c] '
     <<" ","E"," ","Q","1"," ","[","c","]"," ">>,  \* ' E Q1 [c] '
     <<" ","D"," ","N","E","T"," ","c","]"," ">>,  \* ' D NET c] '
     <<" ","D"," ","N","E","T"," ","[","c"," ">>,  \* ' D NET [c '
     <<>>,  \* ''
     <<" ">>,  \* ' '
     <<" ","I">>}  \* ' I'

Tails ==
    {<<"s","h","u","t","t","i","n","g"," ","d","o","w","n">>,  \* 'shutting down'
     <<>>,  \* ''
     <<"q","u","e","r","y">>,  \* 'query'
     <<"q","u","e","r","y","i","n","g"," ","d","b",".","c"," ","a",":","1"," ","0","m","s">>,  \* 'querying db.c a:1 0ms'
     <<"q","u","e","r","y"," ","d","b",".","c">>,  \* 'query db.c'
     <<"q","u","e","r","y"," ","d","b",".","c"," ","0","m","s">>,  \* 'query db.c 0ms'
     <<"q","u","e","r","y"," ","d","b",".","c"," ","a",":","1"," ","1","m","s">>,  \* 'query db.c a:1 1ms'
     <<"q","u","e","r","y"," ","d","b",".","c"," ","a",":","1"," ","1","m","s"," ","a","n","d"," ","m","o","r","e">>,  \* 'query db.c a:1 1ms and more'
     <<"q","u","e","r","y"," ","d","b",".","c"," ","a",":","{","}">>,  \* 'query db.c a:{}'
     <<"u","p","d","a","t","e"," ","d","b",".","c"," ","a",":","\"","x","\""," ","b",":","{"," ","c",":"," ","[","1",","," ","'","y","'","]",","," ","\"","d","\"",":"," ","[","]"," ","}"," ","1","2","m","s">>,  \* 'update db.c a:"x" b:{ c: [1, 'y'], "d": [] } 12ms'
     <<"q","u","e","r","y"," ","d","b",".","c"," ","p","l","a","n","S","u","m","m","a","r","y",":"," ","I","X","S","C","A","N"," ","{"," ","a",":"," ","x"," ","}"," ","n",":","1"," ","0","m","s">>,  \* 'query db.c planSummary: IXSCAN { a: x } n:1 0ms'
     <<"q","u","e","r","y"," ","d","b",".","c"," ","p","l","a","n","S","u","m","m","a","r","y",":"," ","I","X","S","C","A","N"," ","{"," ","a">>,  \* 'query db.c planSummary: IXSCAN { a'
     <<"q","u","e","r","y"," ","d","b",".","c"," ","p","l","a","n","S","u","m","m","a","r","y",":"," ","C","O","L","L","S","C","A","N",","," ","I","X","S","C","A","N"," ","{"," ","a",":"," ","1"," ","}"," ","n",":","1"," ","3","m","s">>,  \* 'query db.c planSummary: COLLSCAN, IXSCAN { a: 1 } n:1 3ms'
     <<"c","o","m","m","a","n","d"," ","d","b",".","$","c","m","d"," ","c","o","m","m","a","n","d",":"," ","i","s","M","a","s","t","e","r"," ","{"," ","i","s","m","a","s","t","e","r",":"," ","1"," ","}"," ","0","m","s">>,  \* 'command db.$cmd command: isMaster { ismaster: 1 } 0ms'
     <<"c","o","m","m","a","n","d"," ","d","b",".","$","c","m","d"," ","c","o","m","m","a","n","d",":"," ","{"," ","p","i","n","g",":"," ","1"," ","}"," ","0","m","s">>,  \* 'command db.$cmd command: { ping: 1 } 0ms'
     <<"c","o","m","m","a","n","d"," ","d","b",".","$","c","m","d"," ","c","o","m","m","a","n","d",":"," ","i","s","M","a","s","t","e","r">>,  \* 'command db.$cmd command: isMaster'
     <<"c","o","m","m","a","n","d"," ","d","b",".","$","c","m","d"," ","c","o","m","m","a","n","d",":"," ","i","s","M","a","s","t","e","r"," ","x">>,  \* 'command db.$cmd command: isMaster x'
     <<"q","u","e","r","y"," ","d","b",".","c"," ","s","e","v","e","r","i","t","y",":","1"," ","0","m","s">>,  \* 'query db.c severity:1 0ms'
     <<"q","u","e","r","y"," ","d","b",".","c"," ","t","i","m","e","s","t","a","m","p",":","{","}"," ","c","o","n","t","e","x","t",":","\"","\""," ","0","m","s">>,  \* 'query db.c timestamp:{} context:"" 0ms'
     <<"q","u","e","r","y"," ","d","b",".","c"," ","a",":","1"," ","5","s">>,  \* 'query db.c a:1 5s'
     <<"g","e","t","m","o","r","e"," ","d","b",".","c"," ","a",":","-","1"," ","0","m","s">>,  \* 'getmore db.c a:-1 0ms'
     <<"i","n","s","e","r","t"," ","d","b",".","c"," ","a",":","1">>,  \* 'insert db.c a:1'
     <<"r","e","m","o","v","e"," ","d","b",".","c"," ","d",":","{"," ","t",":"," ","n","e","w"," ","D","a","t","e","(","1","5","0","0",")",","," ","n",":"," ","n","u","l","l",","," ","b",":"," ","t","r","u","e",","," ","t","s",":"," ","T","i","m","e","s","t","a","m","p"," ","1","|","2"," ","}"," ","0","m","s">>,  \* 'remove db.c d:{ t: new Date(1500), n: null, b: true, ts: Timestamp 1|2 } 0ms'
     <<"q","u","e","r","y"," ","d","b",".","c"," ","q",":","{"," ","p",":"," ","\"","{","\"","a","\"",":","\"","x","\"","}","\"",","," ","z",":"," ","-","1",".","5","0"," ","}"," ","0","m","s">>,  \* 'query db.c q:{ p: "{"a":"x"}", z: -1.50 } 0ms'
     <<"q","u","e","r","y"," ","d","b",".","c"," ","q",":","{"," ","t","s",":"," ","T","i","m","e","s","t","a","m","p","(","1",","," ","2",")"," ","}"," ","0","m","s">>,  \* 'query db.c q:{ ts: Timestamp(1, 2) } 0ms'
     <<"q","u","e","r","y"," ","d","b",".","c"," ","q",":","{"," ",","," ","a",":"," ","1","e"," ","}"," ","0","m","s">>}  \* 'query db.c q:{ , a: 1e } 0ms'

\* Scenarios 1 to 4 of the specification.
Scenario1 ==
    <<"2","0","1","5","-","1","1","-","1","0","T","1","6",":","2","0",":","0","7",".","0","0","0","-","0","8","0","0"," ","I"," ","Q","U","E","R","Y"," ","[","c","o","n","n","1","2","3","]"," ","q","u","e","r","y"," ","t","e","s","t",".","f","o","o"," ","p","l","a","n","S","u","m","m","a","r","y",":"," ","I","X","S","C","A","N"," ","{"," ","a",":"," ","1"," ","}"," ","n","t","o","r","e","t","u","r","n",":","0"," ","n","t","o","s","k","i","p",":","0"," ","n","s","c","a","n","n","e","d",":","1","0"," ","n","s","c","a","n","n","e","d","O","b","j","e","c","t","s",":","1","0"," ","k","e","y","U","p","d","a","t","e","s",":","0"," ","n","u","m","Y","i","e","l","d","s",":","0"," ","l","o","c","k","s","(","m","i","c","r","o","s",")"," ","r",":","1","0","0"," ","n","r","e","t","u","r","n","e","d",":","1"," ","r","e","s","l","e","n",":","1","2","3"," ","1","m","s">>

Scenario2 ==
    <<"W","e","d"," ","N","o","v"," "," ","4"," ","1","2",":","0","0",":","0","0"," ","I"," ","C","O","M","M","A","N","D"," ","[","c","o","n","n","1","]"," ","c","o","m","m","a","n","d"," ","a","d","m","i","n",".","$","c","m","d"," ","c","o","m","m","a","n","d",":"," ","i","s","M","a","s","t","e","r"," ","{"," ","i","s","m","a","s","t","e","r",":"," ","1"," ","}"," ","0","m","s">>

Scenario3 ==
    <<"2","0","1","6","-","0","1","-","0","1","T","0","0",":","0","0",":","0","0",".","0","0","0","Z"," ","F"," ","C","O","N","T","R","O","L"," ","[","m","a","i","n","]"," ","s","h","u","t","t","i","n","g"," ","d","o","w","n">>

Scenario4 ==
    <<"W","e","d"," ","N","o","v"," "," ","4"," ","1","2",":","0","0",":","0","0"," ","[","c","o","n","n","1","]"," ","q","u","e","r","y"," ","d","b",".","c"," ","a",":","1"," ","0","m","s">>

\* '2016-01-01 I QUERY [c] '
OpPrefix ==
    <<"2","0","1","6","-","0","1","-","0","1"," ","I"," ","Q","U","E","R","Y"," ","[","c","]"," ">>

OperationNames ==
    {<<"q","u","e","r","y">>,
     <<"g","e","t","m","o","r","e">>,
     <<"i","n","s","e","r","t">>,
     <<"u","p","d","a","t","e">>,
     <<"r","e","m","o","v","e">>,
     <<"c","o","m","m","a","n","d">>}

\* The most fields of a generated operation line.
MaxFields == 2

FieldNames ==
    {<<"a">>,
     <<"n","s","c","a","n","n","e","d">>,
     <<"p","l","a","n","S","u","m","m","a","r","y">>,
     <<"c","o","m","m","a","n","d">>,
     <<"o","p","e","r","a","t","i","o","n">>,
     <<"d","u","r","a","t","i","o","n">>}

FieldNumbers == {<<"0">>, <<"1","2">>}

FieldLists ==
    UNION {[1..k -> [name : FieldNames, n : FieldNumbers]] : k \in 0..MaxFields}

\* '<op> db.c f1:n1 ... fk:nk <d>ms': every operation name with at most one
\* field, and query with every list of fields.
OpShapes ==
    {sh \in [op : OperationNames, fs : FieldLists, d : {<<"0">>, <<"3","4">>}] :
        Str(sh.op) = "query" \/ Len(sh.fs) <= 1}

RECURSIVE RenderFields(_)
RenderFields(fs) ==
    IF fs = <<>> THEN <<>>
    ELSE <<" ">> \o Head(fs).name \o <<":">> \o Head(fs).n \o RenderFields(Tail(fs))

RenderOp(sh) ==
    OpPrefix \o sh.op \o <<" ", "d", "b", ".", "c">> \o RenderFields(sh.fs)
        \o <<" ">> \o sh.d \o <<"m", "s">>

\* The most hex digits of a generated ObjectId.
MaxHex == 2

HexStrings == UNION {[1..k -> {"5", "f", "A"}] : k \in 0..MaxHex}

\* 'query db.c { _id: ObjectId(<q><hex><q>) } 0ms', the document bare or
\* under the field name query.
RenderObjectId(named, q, hex) ==
    OpPrefix \o <<"q","u","e","r","y"," ","d","b",".","c"," ">>
        \o (IF named THEN <<"q","u","e","r","y",":"," ">> ELSE <<>>)
        \o <<"{"," ","_","i","d",":"," ","O","b","j","e","c","t","I","d","(", q>>
        \o hex \o <<q, ")"," ","}"," ","0","m","s">>

ObjectIdShapes == [named : BOOLEAN, q : {Quote, Apostrophe}, hex : HexStrings]

\* The mis-quoted JSON blobs: the one of scenario 6 of the specification, the
\* empty one, and one with ", " inside a quoted string.
Blobs ==
    {<<"{","\"","a","l","e","r","t","\"",":","\"","x","\"",",","\"","i","d","\"",":","\"","1","\"","}">>,
     <<"{","}">>,
     <<"{","\"","a","\"",":","\"","b",","," ","c","\"","}">>}

\* 'query db.c q:{ payload: "<blob>", n: 1 } 0ms', the value inside a
\* document, or 'query db.c payload: "<blob>", n:1 0ms', the value of a
\* field of the line.
RenderEmbedded(nested, blob) ==
    OpPrefix \o <<"q","u","e","r","y"," ","d","b",".","c"," ">>
        \o (IF nested THEN <<"q",":","{"," ">> ELSE <<>>)
        \o <<"p","a","y","l","o","a","d",":"," ","\"">> \o blob
        \o (IF nested THEN <<"\"",","," ","n",":"," ","1"," ","}"," ","0","m","s">> ELSE <<"\"",","," ","n",":","1"," ","0","m","s">>)

EmbeddedShapes == [nested : BOOLEAN, blob : Blobs]

\* The most entries of a map or of a list, and the most stages of a plan
\* summary, drawn.
MaxEntries == 2

\* The maps drawn: at most MaxEntries entries, each of them 'a: 1', 'a: 2',
\* 'b: 1', '"a": 2' (a quoted key), nothing at all (an empty key) or '\'\': 1'
\* (a quoted empty key), and '}' or ';' after the last one.
MapShapes ==
    [items : UNION {[1..n -> {"a: 1", "a: 2", "b: 1", "\"a\": 2", "", "'': 1"}] :
                       n \in 0..MaxEntries},
     closed : BOOLEAN]

\* The entries of a map as they stand in the line, ', ' between them.
RECURSIVE RenderItems(_)
RenderItems(items) ==
    IF items = <<>> THEN <<>>
    ELSE (CASE Head(items) = "a: 1" -> <<"a", ":", " ", "1">>
            [] Head(items) = "a: 2" -> <<"a", ":", " ", "2">>
            [] Head(items) = "b: 1" -> <<"b", ":", " ", "1">>
            [] Head(items) = "\"a\": 2" -> <<Quote, "a", Quote, ":", " ", "2">>
            [] Head(items) = "" -> <<>>
            [] Head(items) = "'': 1" -> <<"'", "'", ":", " ", "1">>)
         \o (IF Len(items) > 1 THEN <<",", " ">> ELSE <<" ">>)
         \o RenderItems(Tail(items))

\* '{ <entries> }', or '{ <entries> ;'
RenderMap(sh) ==
    <<"{", " ">> \o RenderItems(sh.items)
        \o (IF sh.closed THEN <<"}">> ELSE <<";">>)

\* 'query db.c q:' after the prefix: the map is the value of the field q.
MapHead == OpPrefix \o <<"q","u","e","r","y"," ","d","b",".","c"," ","q",":">>

\* The texts items, the text sep between one and the next.
RECURSIVE Join(_, _)
Join(items, sep) ==
    IF items = <<>> THEN <<>>
    ELSE IF Len(items) = 1 THEN Head(items)
    ELSE Head(items) \o sep \o Join(Tail(items), sep)

\* 'query db.c q:{ a: <value>, n: 1 } 0ms': a value inside a document; or
\* 'query db.c q:{ a: <value>', the line cut after the value.
ValueLine(v, cut) ==
    MapHead \o <<"{", " ", "a", ":", " ">> \o v
        \o (IF cut THEN <<>>
            ELSE <<",", " ", "n", ":", " ", "1", " ", "}", " ", "0", "m", "s">>)

\* The lists drawn: at most MaxEntries elements, each of them '1', '-2' or
\* 'true'; whitespace after '[', after each ',' and before the end, or none;
\* and ']' or ';' at the end.
ListShapes ==
    [items : UNION {[1..n -> {<<"1">>, <<"-", "2">>, <<"t", "r", "u", "e">>}] :
                       n \in 0..MaxEntries},
     pad : BOOLEAN, closed : BOOLEAN]

\* '[ 1, -2 ]', '[1,-2]', '[ 1, -2 ;', ...
RenderList(sh) ==
    <<"[">> \o (IF sh.pad THEN <<" ">> ELSE <<>>)
        \o Join(sh.items, IF sh.pad THEN <<",", " ">> ELSE <<",">>)
        \o (IF sh.pad THEN <<" ">> ELSE <<>>)
        \o (IF sh.closed THEN <<"]">> ELSE <<";">>)

\* The values drawn as texts.
ValueTexts ==
    {<<"T","i","m","e","s","t","a","m","p","(","1",","," ","2",")">>,  \* 'Timestamp(1, 2)'
     <<"T","i","m","e","s","t","a","m","p"," ","1","|","2">>,  \* 'Timestamp 1|2'
     <<"O","b","j","e","c","t","I","d","(","'","5","f","\"",")">>,  \* 'ObjectId('5f")'
     <<"O","b","j","e","c","t","I","d","(","\"","5","g","\"",")">>,  \* 'ObjectId("5g")'
     <<"O","b","j","e","c","t","I","d","\"","5","f","\"",")">>,  \* 'ObjectId"5f")'
     <<"O","b","j","e","c","t","I","d","(","\"","5","f","\"">>,  \* 'ObjectId("5f"'
     <<"O","b","j","e","c","t","I","d","(","5","f",")">>,  \* 'ObjectId(5f)'
     <<"O","b","j","e","c","t","I","d","(","\"","5","f">>,  \* 'ObjectId("5f'
     <<"'","x","'">>,  \* ''x''
     <<"\"","x","\"">>,  \* '"x"'
     <<"\"","a","\\","\"","b","\"">>,  \* '"a\"b"'
     <<"\"","a","\\","\\","b","\"">>,  \* '"a\\b"'
     <<"\"","\"">>,  \* '""'
     <<"\"","a"," ","b","\"">>,  \* '"a b"'
     <<"\"","a","b">>,  \* '"ab'
     <<"\"","\\","\"">>}  \* '"\"'

\* The values 'new <constructor>(<n>)' drawn: n a multiple of 1000 or not,
\* negative, written with a fraction or an exponent, not integral, and
\* beyond the int64 range.
DateShapes ==
    [ctor : {<<"D","a","t","e">>, <<"D","a","t","a">>},
     n : {<<"0">>, <<"1">>, <<"1","5","0","0">>, <<"-","1">>,
          <<"-","1","5","0","0">>, <<"8","6","4","0","0","0","0","0">>,
          <<"2",".","0">>, <<"1","e","3">>, <<"1",".","5">>,
          <<"-","0",".","5">>, <<"1","e","1","9">>, <<"-","1","e","1","9">>}]

\* The machines a line is parsed on: the two differ in the conversion of a
\* float64 beyond the int64 range only, which the values of DateShapes
\* alone reach.
Machines(d) == IF d.family = "date" THEN {"amd64", "arm64"} ELSE {"amd64"}

\* The plan summaries drawn: at most MaxEntries stages, COLLSCAN or IXSCAN,
\* each with the map '{ a: 1 }' after it or with none.
PlanShapes ==
    UNION {[1..n -> [name : {<<"C","O","L","L","S","C","A","N">>,
                             <<"I","X","S","C","A","N">>},
                     map : BOOLEAN]] : n \in 1..MaxEntries}

\* The values of the documents drawn.
DocValues ==
    {<<"1">>,  \* '1'
     <<"-","1",".","5">>,  \* '-1.5'
     <<"1","e","5">>,  \* '1e5'
     <<"+","1">>,  \* '+1'
     <<".","5">>,  \* '.5'
     <<"\"","x","\"">>,  \* '"x"'
     <<"'","x","'">>,  \* ''x''
     <<"n","u","l","l">>,  \* 'null'
     <<"t","r","u","e">>,  \* 'true'
     <<"f","a","l","s","e">>,  \* 'false'
     <<"n","u","l">>,  \* 'nul'
     <<"n","e","w"," ","D","a","t","e","(","1",")">>,  \* 'new Date(1)'
     <<"D","a","t","e","(","1",")">>,  \* 'Date(1)'
     <<"n","e","w"," "," ","D","a","t","e","(","1",")">>,  \* 'new  Date(1)'
     <<"O","b","j","e","c","t","I","d","(","\"","5","f","\"",")">>,  \* 'ObjectId("5f")'
     <<"O","b","j","e","c","t","I","d","(","'","5","f","'",")">>,  \* 'ObjectId('5f')'
     <<"T","i","m","e","s","t","a","m","p","(","1",","," ","2",")">>,  \* 'Timestamp(1, 2)'
     <<"T","i","m","e","s","t","a","m","p"," ","1","|","2">>,  \* 'Timestamp 1|2'
     <<"N","u","m","b","e","r","L","o","n","g","(","1",")">>,  \* 'NumberLong(1)'
     <<"B","i","n","D","a","t","a","(","0",","," ","a","b",")">>,  \* 'BinData(0, ab)'
     <<"M","i","n","K","e","y">>,  \* 'MinKey'
     <<"M","a","x","K","e","y">>,  \* 'MaxKey'
     <<"u","n","d","e","f","i","n","e","d">>,  \* 'undefined'
     <<"/","a","/","i">>,  \* '/a/i'
     <<"[","1",","," ","2","]">>,  \* '[1, 2]'
     <<"["," ","]">>,  \* '[ ]'
     <<"[","]">>,  \* '[]'
     <<"{"," ","b",":"," ","1"," ","}">>,  \* '{ b: 1 }'
     <<"{","}">>,  \* '{}'
     <<"x">>}  \* 'x'

\* The ends of the lines 'query db.c a:<pad><body>': the value of the field a
\* and what follows it.
FieldBodies ==
    {<<"{"," ","b",":"," ","1"," ","}"," ","0","m","s">>,  \* '{ b: 1 } 0ms'
     <<"{"," ","b",":"," ","1"," ","}">>,  \* '{ b: 1 }'
     <<"{"," ","b",":"," ","1">>,  \* '{ b: 1'
     <<"{">>,  \* '{'
     <<"1","2"," ","0","m","s">>,  \* '12 0ms'
     <<"1",".","5","e","1"," ","0","m","s">>,  \* '1.5e1 0ms'
     <<"1","x"," ","0","m","s">>,  \* '1x 0ms'
     <<"1">>,  \* '1'
     <<"\"","x"," ","y","\""," ","0","m","s">>,  \* '"x y" 0ms'
     <<"\"","x">>,  \* '"x'
     <<"\"","\""," ","0","m","s">>,  \* '"" 0ms'
     <<"-","1"," ","0","m","s">>,  \* '-1 0ms'
     <<"+","1"," ","0","m","s">>,  \* '+1 0ms'
     <<".","5"," ","0","m","s">>,  \* '.5 0ms'
     <<"[","1","]"," ","0","m","s">>,  \* '[1] 0ms'
     <<"x"," ","0","m","s">>,  \* 'x 0ms'
     <<"t","r","u","e"," ","0","m","s">>,  \* 'true 0ms'
     <<"'","x","'"," ","0","m","s">>,  \* ''x' 0ms'
     <<"U+0663"," ","0","m","s">>,  \* '<U+0663> 0ms'
     <<"U+00B2"," ","0","m","s">>,  \* '<U+00B2> 0ms'
     <<"U+00E9"," ","0","m","s">>,  \* '<U+00E9> 0ms'
     <<>>,  \* ''
     <<":","1"," ","0","m","s">>,  \* ':1 0ms'
     <<"(","1",")"," ","0","m","s">>,  \* '(1) 0ms'
     <<"O","b","j","e","c","t","I","d","(","\"","5","f","\"",")"," ","0","m","s">>}  \* 'ObjectId("5f") 0ms'

\* The ends of the lines 'command db.$cmd command:<pad><name><gap><open><rest>':
\* a command's name, or none, the rune that stands for the document's '{',
\* or none, and the rest of the line.
CommandShapes ==
    [pad : {<<>>, <<" ">>},
     name : {<<>>, <<"i","s","M","a","s","t","e","r">>, <<"$","a",".","b","_","1","*">>},
     gap : {<<>>, <<" ">>},
     open : {<<>>, <<"{">>, <<"[">>, <<"(">>},
     rest : {<<>>, <<" ","i","s","m","a","s","t","e","r",":"," ","1"," ","}"," ","0","m","s">>,
             <<" ","i","s","m","a","s","t","e","r",":"," ","1"," ","}">>}]

\* The ends of the lines 'query db.c a:1 <digits><unit>': where the duration
\* is read, a run of digits and what follows it.
DurationShapes ==
    [digits : {<<>>, <<"0">>, <<"1", "2">>, <<"0", "0", "7">>, <<"U+0663">>,
               <<"1", "U+0663">>},
     unit : {<<>>, <<"m", "s">>, <<"s">>, <<"m">>, <<"u", "s">>,
             <<"m", "s", "x">>, <<"m", "s", " ", "x">>, <<" ", "m", "s">>,
             <<"m", " ", "s">>, <<"M", "S">>}]

\* The document texts: '{ a: <value> }' and '{a:<value>}' for every value,
\* and the documents of another form.
Documents ==
    {<<"{"," ","a",":"," ">> \o v \o <<" ","}">> : v \in DocValues}
        \cup {<<"{","a",":">> \o v \o <<"}">> : v \in DocValues}
        \cup {<<"{"," ","}">>,  \* '{ }'
     <<"{","}">>,  \* '{}'
     <<"{"," ",","," ","}">>,  \* '{ , }'
     <<"{"," ","a",":"," ","1"," ","}"," ","x">>,  \* '{ a: 1 } x'
     <<"{"," ","a",":"," ","1">>,  \* '{ a: 1'
     <<"{"," ","a"," ",":"," ","1"," ","}">>,  \* '{ a : 1 }'
     <<"{"," ","\"","a","\"",":"," ","1"," ","}">>,  \* '{ "a": 1 }'
     <<"{"," ","U+00E9",":"," ","1"," ","}">>,  \* '{ <U+00E9>: 1 }'
     <<"{"," ","a",":"," ","1",","," ","b",":"," ","2"," ","}">>,  \* '{ a: 1, b: 2 }'
     <<"{"," ","a",":"," ","1",","," "," ","b",":"," ","2"," ","}">>,  \* '{ a: 1,  b: 2 }'
     <<"{","a",":","1",",","b",":","2","}">>,  \* '{a:1,b:2}'
     <<"{"," ","a",":"," ","1",","," ","}">>,  \* '{ a: 1, }'
     <<"{"," ","a",".","b",":"," ","1",","," ","$","c",":"," ","\"","\"",","," ","_","d",":"," ","[","t","r","u","e","]"," ","}">>}  \* '{ a.b: 1, $c: "", _d: [true] }'

\* The lines of free form: a timestamp, the text up to the message and a
\* message; and the scenarios.
Texts ==
    {h \o m \o t : h \in Heads, m \in Mids, t \in Tails}
        \cup {Scenario1, Scenario2, Scenario3, Scenario4}

\* An input line as it is drawn: a text, or the shape of a generated line.
Drawn ==
    [family : {"text"}, shape : Texts]
        \cup [family : {"operation"}, shape : OpShapes]
        \cup [family : {"objectid"}, shape : ObjectIdShapes]
        \cup [family : {"embedded"}, shape : EmbeddedShapes]
        \cup [family : {"document"}, shape : Documents]
        \cup [family : {"map"}, shape : MapShapes]
        \cup [family : {"list"}, shape : ListShapes]
        \cup [family : {"value", "cut"}, shape : ValueTexts]
        \cup [family : {"date"}, shape : DateShapes]
        \cup [family : {"plan"}, shape : PlanShapes]
        \cup [family : {"duration"}, shape : DurationShapes]
        \cup [family : {"command"}, shape : CommandShapes]
        \cup [family : {"field"},
               shape : [pad : {<<>>, <<" ">>, <<" ", "\t">>}, body : FieldBodies]]

\* The runes of the line drawn.
Line(d) ==
    CASE d.family = "text" -> d.shape
      [] d.family = "operation" -> RenderOp(d.shape)
      [] d.family = "objectid" ->
            RenderObjectId(d.shape.named, d.shape.q, d.shape.hex)
      [] d.family = "embedded" -> RenderEmbedded(d.shape.nested, d.shape.blob)
      [] d.family = "document" -> d.shape
      [] d.family = "map" ->
            MapHead \o RenderMap(d.shape) \o <<" ", "0", "m", "s">>
      [] d.family = "list" -> ValueLine(RenderList(d.shape), FALSE)
      [] d.family = "value" -> ValueLine(d.shape, FALSE)
      [] d.family = "cut" -> ValueLine(d.shape, TRUE)
      [] d.family = "plan" ->
            \* 'query db.c planSummary: COLLSCAN, IXSCAN { a: 1 } n:1 0ms'
            OpPrefix
                \o <<"q","u","e","r","y"," ","d","b",".","c"," ","p","l","a","n","S","u","m","m","a","r","y",":"," ">>
                \o Join([i \in DOMAIN d.shape |->
                            d.shape[i].name
                                \o (IF d.shape[i].map
                                    THEN <<" ","{"," ","a",":"," ","1"," ","}">>
                                    ELSE <<>>)],
                        <<",", " ">>)
                \o <<" ","n",":","1"," ","0","m","s">>
      [] d.family = "field" ->
            OpPrefix \o <<"q","u","e","r","y"," ","d","b",".","c"," ","a",":">>
                \o d.shape.pad \o d.shape.body
      [] d.family = "command" ->
            OpPrefix
                \o <<"c","o","m","m","a","n","d"," ","d","b",".","$","c","m","d"," ","c","o","m","m","a","n","d",":">>
                \o d.shape.pad \o d.shape.name \o d.shape.gap \o d.shape.open
                \o d.shape.rest
      [] d.family = "duration" ->
            OpPrefix \o <<"q","u","e","r","y"," ","d","b",".","c"," ","a",":","1"," ">>
                \o d.shape.digits \o d.shape.unit
      [] d.family = "date" ->
            ValueLine(<<"n", "e", "w", " ">> \o d.shape.ctor \o <<"(">>
                          \o d.shape.n \o <<")">>, FALSE)

(***************************************************************************)
(* ParseLogLine as a state machine: one action per statement of Parse, and *)
(* one per round of parseOperationBody's loop.                             *)
(***************************************************************************)
NotReturned == [returned |-> FALSE, fields |-> EmptyMap, err |-> NoErr]

\* p := nonPegLogLineParser{Buffer: input}; p.Init()
Init ==
    /\ \E d \in Drawn :
          /\ drawn = d
          /\ Buffer = Str(Line(d))
          /\ runes = Line(d) \o <<endRune>>
    /\ position = 1
    /\ Fields = EmptyMap
    /\ pc = "parseTimestamp"
    /\ err = NoErr
    /\ ret = NotReturned
    /\ called = <<>>
    /\ dropped = <<>>
    /\ inserted = <<>>
    /\ firstKey = <<>>
    /\ machine \in Machines(drawn)

Call(fn, at) == [fn |-> fn, at |-> at]

\* What a statement "if err = p.f(); err != nil { return err }" of Parse does
\* with the outcome of f: position pos, record fields, error e; next is the
\* statement after it, calls the calls made.
Step(calls, st, pos, fields, e, next) ==
    /\ position' = pos
    /\ Fields' = fields
    /\ err' = e
    /\ pc' = IF st = "panic" THEN "panic" ELSE IF e # NoErr THEN "return" ELSE next
    /\ called' = called \o calls
    /\ UNCHANGED <<Buffer, runes, ret, drawn, firstKey, machine>>

ErrOf(r) == IF r.st = "ok" THEN NoErr ELSE r.val

\* The key assigned by "p.Fields[key] = ..." after the read r: the statement
\* is reached only when r returned no error.
Assigned(r, key) == IF r.st = "ok" THEN <<key>> ELSE <<>>

ParseTimestamp ==
    /\ pc = "parseTimestamp"
    /\ \E r \in {parseTimestamp(position)} :
           /\ Step(<<Call("parseTimestamp", position)>>, r.st, r.pos,
                   IF r.st = "ok"
                   THEN Put(Fields, "timestamp", StringV(Str(r.val)))
                   ELSE Fields,
                   ErrOf(r), "lookahead")
           /\ inserted' = inserted \o Assigned(r, "timestamp")
    /\ UNCHANGED dropped

\* if p.lookahead(0) == '[' { panic("< 3.0 support not implemented") }
VersionCheck ==
    /\ pc = "lookahead"
    /\ pc' = IF lookahead(position, 0) = "[" THEN "panic" ELSE "parseSeverity"
    /\ called' = Append(called, Call("lookahead", position))
    /\ UNCHANGED <<Buffer, runes, position, Fields, err, ret, dropped, drawn,
                   inserted, firstKey, machine>>

ParseSeverity ==
    /\ pc = "parseSeverity"
    /\ \E r \in {parseSeverity(position)} :
           Step(<<Call("parseSeverity", position)>>, r.st, r.pos,
                Put(Fields, "severity", StringV(r.val)), r.err, "parseComponent")
    /\ inserted' = Append(inserted, "severity")
    /\ UNCHANGED dropped

ParseComponent ==
    /\ pc = "parseComponent"
    /\ \E r \in {parseComponent(position)} :
           /\ Step(<<Call("parseComponent", position)>>, r.st, r.pos,
                   IF r.st = "ok"
                   THEN Put(Fields, "component", StringV(Str(r.val)))
                   ELSE Fields,
                   ErrOf(r), "parseContext")
           /\ inserted' = inserted \o Assigned(r, "component")
    /\ UNCHANGED dropped

ParseContext ==
    /\ pc = "parseContext"
    /\ \E r \in {parseContext(position)} :
           /\ Step(<<Call("parseContext", position)>>, r.st, r.pos,
                   IF r.st = "ok"
                   THEN Put(Fields, "context", StringV(Str(r.val)))
                   ELSE Fields,
                   ErrOf(r), "parseMessage")
           /\ inserted' = inserted \o Assigned(r, "context")
    /\ UNCHANGED dropped

\* What parseMessage returns up to its call of parseOperationBody; op: the
\* message is an operation.
MessageResult(st, pos, fields, e, op) ==
    [st |-> st, pos |-> pos, fields |-> fields, err |-> e, op |-> op]

\* A faulty operationHead, which stores no namespace: C1 must tell it from
\* operationHead.
operationHeadNoNamespace(operation, fields) ==
    Bind(readUntil(eatWhitespace(operation.pos), Space), LAMBDA namespace :
        IF namespace.st # "ok"
        THEN MessageResult("err", namespace.pos,
                           Put(fields, "operation", StringV(Str(operation.val))),
                           namespace.val, TRUE)
        ELSE MessageResult("ok", namespace.pos,
                           Put(fields, "operation", StringV(Str(operation.val))),
                           NoErr, TRUE))

\* The operation branch of parseMessage, the operation's name read.
operationHead(operation, fields) ==
    Bind(readUntil(eatWhitespace(operation.pos), Space), LAMBDA namespace :
        IF namespace.st # "ok"
        THEN MessageResult("err", namespace.pos,
                           Put(fields, "operation", StringV(Str(operation.val))),
                           namespace.val, TRUE)
        ELSE MessageResult("ok", namespace.pos,
                           Put(Put(fields, "operation", StringV(Str(operation.val))),
                               "namespace", StringV(Str(namespace.val))),
                           NoErr, TRUE))

\* A faulty messageRest, which leaves the cursor where the probe for an
\* operation name ended: C9 must tell it from messageRest.
messageRestUnrestored(savedPosition, fields) ==
    Bind(readUntil(savedPosition, Space), LAMBDA probe :
    Bind(readUntilRune(probe.pos, endRune), LAMBDA message :
        MessageResult("ok", message.pos,
                      Put(fields, "message", StringV(Str(message.val))),
                      NoErr, FALSE)))

\* The other branch: p.position = savedPosition, then the rest of the line.
messageRest(savedPosition, fields) ==
    Bind(readUntilRune(savedPosition, endRune), LAMBDA message :
        MessageResult("ok", message.pos,
                      Put(fields, "message", StringV(Str(message.val))),
                      NoErr, FALSE))

\* The keys parseMessage assigned, r being what it returned.
messageKeys(r) ==
    IF r.op
    THEN <<"operation">> \o (IF r.st = "ok" THEN <<"namespace">> ELSE <<>>)
    ELSE <<"message">>

parseMessage(pos, fields) ==
    Bind(eatWhitespace(pos), LAMBDA savedPosition :
    Bind(readUntil(savedPosition, Space), LAMBDA operation :
        IF operation.st = "ok" /\ isOperationName(operation.val)
        THEN operationHead(operation, fields)
        ELSE messageRest(savedPosition, fields)))

ParseMessage ==
    /\ pc = "parseMessage"
    /\ \E r \in {parseMessage(position, Fields)} :
           /\ Step(<<Call("parseMessage", position)>>, r.st, r.pos, r.fields,
                   r.err, IF r.op THEN "parseOperationBody" ELSE "return")
           /\ inserted' = inserted \o messageKeys(r)
    /\ UNCHANGED dropped

\* What one round of parseOperationBody's loop leaves; more: the loop goes
\* on; calls: the calls made in the round.
Round(st, pos, fields, e, lost, more, calls) ==
    [st |-> st, pos |-> pos, fields |-> fields, err |-> e, lost |-> lost,
     more |-> more, calls |-> calls]

\* A faulty durationRound, which reads the duration and does not store it:
\* C6 must tell it from durationRound.
durationRoundUnstored(pos, f) ==
    Bind(readDuration(f.pos), LAMBDA dur :
        IF dur.st # "ok"
        THEN Round("err", dur.pos, f.fields, dur.val, f.lost, FALSE,
                   <<Call("parseFieldAndValue", pos), Call("readDuration", f.pos)>>)
        ELSE Round("ok", dur.pos, f.fields, NoErr, f.lost, FALSE,
                   <<Call("parseFieldAndValue", pos), Call("readDuration", f.pos)>>))

\* if done { dur, err := p.readDuration() ... break }
durationRound(pos, f) ==
    Bind(readDuration(f.pos), LAMBDA dur :
        IF dur.st # "ok"
        THEN Round("err", dur.pos, f.fields, dur.val, f.lost, FALSE,
                   <<Call("parseFieldAndValue", pos), Call("readDuration", f.pos)>>)
        ELSE Round("ok", dur.pos, Put(f.fields, "duration", dur.val), NoErr,
                   f.lost, FALSE,
                   <<Call("parseFieldAndValue", pos), Call("readDuration", f.pos)>>))

\* A faulty parseOperationBody, whose loop goes on when no field is left:
\* C18 must tell it from parseOperationBody.
parseOperationBodyNoBreak(pos, fields) ==
    IF lookahead(pos, 0) = endRune
    THEN Round("ok", pos, fields, NoErr, <<>>, FALSE, <<>>)
    ELSE Bind(parseFieldAndValue(pos, fields), LAMBDA f :
        IF f.st # "ok"
        THEN Round(f.st, f.pos, f.fields, f.err, f.lost, FALSE,
                   <<Call("parseFieldAndValue", pos)>>)
        ELSE Round("ok", f.pos, f.fields, NoErr, f.lost, TRUE,
                   <<Call("parseFieldAndValue", pos)>>))

\* One round of parseOperationBody's loop.
parseOperationBody(pos, fields) ==
    IF lookahead(pos, 0) = endRune
    THEN Round("ok", pos, fields, NoErr, <<>>, FALSE, <<>>)
    ELSE Bind(parseFieldAndValue(pos, fields), LAMBDA f :
        IF f.st # "ok"
        THEN Round(f.st, f.pos, f.fields, f.err, f.lost, FALSE,
                   <<Call("parseFieldAndValue", pos)>>)
        ELSE IF ~f.done
        THEN Round("ok", f.pos, f.fields, NoErr, f.lost, TRUE,
                   <<Call("parseFieldAndValue", pos)>>)
        ELSE durationRound(pos, f))

\* The keys assigned in the round of parseOperationBody's loop that starts
\* at pos and leaves r: none when the loop ends at the sentinel; duration
\* when no field is left and the duration is read; else command_type for a
\* command with a name, and then the field's name once its value is read.
roundKeys(pos, r) ==
    Bind(readUntilRune(eatWhitespace(pos), ":"), LAMBDA fieldName :
        IF r.calls = <<>> THEN <<>>
        ELSE IF fieldName.st # "ok" THEN Assigned(r, "duration")
        ELSE (IF /\ Str(fieldName.val) = "command"
                 /\ lookahead(eatWhitespace(fieldName.pos + 1), 0) # "{"
              THEN <<"command_type">>
              ELSE <<>>)
                 \o Assigned(r, Str(fieldName.val)))

ParseOperationBody ==
    /\ pc = "parseOperationBody"
    /\ \E r \in {parseOperationBody(position, Fields)} :
           /\ Step(r.calls, r.st, r.pos, r.fields, r.err,
                   IF r.more THEN "parseOperationBody" ELSE "return")
           /\ dropped' = dropped \o r.lost
           /\ inserted' = inserted \o roundKeys(position, r)

\* A faulty ParseLogLine, which hands p.Fields back beside an error: C4 must
\* tell it from ParseLogLine.
ParseLogLinePartial(fields, e) == [returned |-> TRUE, fields |-> fields, err |-> e]

\* ParseLogLine's two return statements.
ParseLogLineResult(fields, e) ==
    IF e # NoErr
    THEN [returned |-> TRUE, fields |-> EmptyMap, err |-> e]
    ELSE [returned |-> TRUE, fields |-> fields, err |-> NoErr]

\* The first keys that "for k := range fields" can yield.
RangeFirst(fields) ==
    IF fields = EmptyMap THEN {<<>>} ELSE {<<k>> : k \in DOMAIN fields}

\* The map is a Go map: a range over it yields its keys in an order that
\* the language leaves open, so any key of it may be the first.
Return ==
    /\ pc = "return"
    /\ ret' = ParseLogLineResult(Fields, err)
    /\ firstKey' \in RangeFirst(ret'.fields)
    /\ pc' = "done"
    /\ UNCHANGED <<Buffer, runes, position, Fields, err, called, dropped,
                   drawn, inserted, machine>>

Next ==
    \/ ParseTimestamp
    \/ VersionCheck
    \/ ParseSeverity
    \/ ParseComponent
    \/ ParseContext
    \/ ParseMessage
    \/ ParseOperationBody
    \/ Return

Spec == Init /\ [][Next]_vars

\* ParseLogLine is one synchronous call on one goroutine: a statement that
\* can run does run.
FairSpec == Spec /\ WF_vars(Next)

(***************************************************************************)
(* The properties of ParseLogLine.                                         *)
(***************************************************************************)
\* ParseLogLine has returned (fields, nil).
Success == ret.returned /\ ret.err = NoErr

\* The index of the sentinel.
Sentinel == Len(runes)

\* Parse has called fn.
Ran(fn) == \E i \in DOMAIN called : called[i].fn = fn

\* The last call made.
LastCall == called[Len(called)].fn

BaseKeys == {"timestamp", "severity", "component", "context"}

Severities == {"debug", "informational", "warning", "error", "fatal"}

\* C2, as stated: on success severity is one of the five severity strings
\* and timestamp, component and context are strings, whatever fields the
\* operation body has inserted into the mapping.
C2_Original ==
    Success =>
        /\ BaseKeys \subseteq DOMAIN ret.fields
        /\ ret.fields["severity"] \in {StringV(sev) : sev \in Severities}
        /\ \A k \in {"timestamp", "component", "context"} :
              ret.fields[k].t = "string"

\* The timestamp of the line is read and the first rune after it, whitespace
\* skipped, is '[': the pre-3.0 shape.
Pre30 ==
    LET ts == parseTimestamp(1)
    IN  ts.st = "ok" /\ runes[eatWhitespace(ts.pos)] = "["

\* C3, as stated: on a line of the pre-3.0 shape the severity, component,
\* context and message steps never run, and ParseLogLine does not return
\* anything but the unsupported-version error.
C3_Original ==
    Pre30 =>
        /\ ~Ran("parseSeverity")
        /\ ~Ran("parseComponent")
        /\ ~Ran("parseContext")
        /\ ~Ran("parseMessage")
        /\ ret.returned => ret.err = "< 3.0 support not implemented"

\* C4: when ParseLogLine returns an error the mapping it returns is empty,
\* whatever had been inserted into p.Fields before the error.
C4_NoPartial == ret.returned /\ ret.err # NoErr => ret.fields = EmptyMap

\* An error is returned after timestamp, severity and command_type were
\* inserted.
C4_Discarded ==
    /\ ret.returned
    /\ ret.err # NoErr
    /\ {"timestamp", "severity", "command_type"} \subseteq DOMAIN Fields

\* C5, as stated: an error raised while parsing the map that follows a
\* plan-summary stage name is the error ParseLogLine returns.
C5_Original == ret.returned /\ dropped # <<>> => ret.err = dropped[1]

\* C6: on success the cursor is not past the sentinel, and it is at the
\* sentinel unless the trailing duration has been read and stored.
C6_Consumed ==
    Success =>
        /\ position <= Sentinel
        /\ position < Sentinel =>
              Has(ret.fields, "duration") /\ LastCall = "readDuration"

\* A success that leaves input unread.
C6_Residual == Success /\ position < Sentinel

\* The keys that a field's value is not stored under as the number read:
\* planSummary and command are read as a plan summary and a command, and
\* operation, namespace and duration are stored by the parser itself.
SpecialNames == {"planSummary", "command", "operation", "namespace", "duration"}

\* The names of fs are pairwise different and none is special.
Plain(fs) ==
    \A i \in DOMAIN fs :
        /\ Str(fs[i].name) \notin SpecialNames
        /\ \A j \in DOMAIN fs : fs[i].name = fs[j].name => i = j

\* The result C7 states for the generated operation line of shape sh.
Parsed(sh) ==
    /\ ret.err = NoErr
    /\ {"operation", "namespace", "duration"} \subseteq DOMAIN ret.fields
    /\ ret.fields["operation"] = StringV(Str(sh.op))
    /\ ret.fields["namespace"] = StringV("db.c")
    /\ ret.fields["duration"] = Num(DecVal(sh.d))
    /\ \A i \in DOMAIN sh.fs :
          /\ Has(ret.fields, Str(sh.fs[i].name))
          /\ ret.fields[Str(sh.fs[i].name)] = Num(DecVal(sh.fs[i].n))

\* The numbers of scenario 1.
Scenario1Numbers ==
    /\ ret.err = NoErr
    /\ {"ntoreturn", "nscanned", "nreturned", "reslen", "duration"}
          \subseteq DOMAIN ret.fields
    /\ ret.fields["ntoreturn"] = Num(0)
    /\ ret.fields["nscanned"] = Num(10)
    /\ ret.fields["nreturned"] = Num(1)
    /\ ret.fields["reslen"] = Num(123)
    /\ ret.fields["duration"] = Num(1)

TokenEnd(i) == ScanUntil(i, Space)

Token(i) == Slice(i, TokenEnd(i))

NextToken(i) == ScanWhile(TokenEnd(i), Space)

\* C8, as stated: a timestamp whose first rune is a digit is stored as its
\* first token; any other is accepted only if its first two tokens have
\* exactly three characters each, and is stored as its four tokens joined by
\* single spaces.
C8_Original ==
    pc = "lookahead" =>
        LET t1 == eatWhitespace(1)
            t2 == NextToken(t1)
            t3 == NextToken(t2)
            t4 == NextToken(t3)
        IN  IF runes[t1] \in Digit
            THEN Fields["timestamp"] = StringV(Str(Token(t1)))
            ELSE /\ Len(Token(t1)) = 3
                 /\ Len(Token(t2)) = 3
                 /\ Fields["timestamp"] =
                        StringV(Str(Token(t1) \o <<" ">> \o Token(t2) \o <<" ">>
                                        \o Token(t3) \o <<" ">> \o Token(t4)))

\* The MESSAGE step that starts at at misses: no whitespace-terminated
\* token can be read there, or the token is no operation name.
Missed(at) ==
    LET tok == eatWhitespace(at)
    IN  \/ runes[TokenEnd(tok)] = endRune
        \/ Str(Token(tok)) \notin
              {"query", "getmore", "insert", "update", "remove", "command"}

\* C9: when the MESSAGE step misses, the rest of the line from the position
\* saved before the probe up to the sentinel is stored under message, the
\* cursor ends at the sentinel, and no operation or namespace is stored.
C9_Message ==
    \A i \in DOMAIN called :
        called[i].fn = "parseMessage" /\ Missed(called[i].at) =>
            /\ err = NoErr
            /\ position = Sentinel
            /\ Has(Fields, "message")
            /\ Fields["message"] =
                   StringV(Str(Slice(eatWhitespace(called[i].at), Sentinel)))
            /\ ~Has(Fields, "operation")
            /\ ~Has(Fields, "namespace")

\* Scenario 3 has been parsed.
C9_ShuttingDown ==
    /\ Success
    /\ drawn.family = "text"
    /\ drawn.shape = Scenario3
    /\ ret.fields["message"] = StringV("shutting down")

\* The value of a document that holds the one entry _id, the hex digits hex.
IdDocument(hex) == MapV(Put(EmptyMap, "_id", StringV(Str(hex))))

\* C10, as stated: the line 'query db.c { _id: ObjectId("<hex>") } 0ms',
\* the document bare, is parsed and the result holds the entry _id with the
\* hex digits.
C10_Original ==
    /\ ret.returned
    /\ drawn.family = "objectid"
    /\ ~drawn.shape.named
    /\ drawn.shape.q = Quote
    => /\ ret.err = NoErr
       /\ \E k \in DOMAIN ret.fields :
             \/ k = "_id" /\ ret.fields[k] = StringV(Str(drawn.shape.hex))
             \/ ret.fields[k] = IdDocument(drawn.shape.hex)

\* C10, amended: the line with the document bare fails, its first rune after
\* the ':' being no start of a field's value; the line with the document
\* under a field name, 'query db.c query: { _id: ObjectId("<hex>") } 0ms',
\* is parsed, and the field holds the entry _id with exactly the hex digits.
C10_ObjectId ==
    ret.returned /\ drawn.family = "objectid" =>
        IF drawn.shape.named
        THEN /\ ret.err = NoErr
             /\ Has(ret.fields, "query")
             /\ ret.fields["query"] = IdDocument(drawn.shape.hex)
        ELSE ret.err = "unexpected start character for value of field"

\* A line with an ObjectId of two hex digits under a field name has been
\* parsed.
C10_Named ==
    /\ Success
    /\ drawn.family = "objectid"
    /\ drawn.shape.named
    /\ Len(drawn.shape.hex) >= 2

\* C11, as stated: a value that begins with '"{' and is ended by an unquoted
\* '", ' is stored as the text from the '{' up to, and without, the ending
\* quote, and the entry after the ', ' is parsed next.
C11_Original ==
    ret.returned /\ drawn.family = "embedded" /\ drawn.shape.nested =>
        /\ ret.err = NoErr
        /\ Has(ret.fields, "q")
        /\ ret.fields["q"] =
               MapV(Put(Put(EmptyMap, "payload", StringV(Str(drawn.shape.blob))),
                        "n", Num(1)))

\* The severity string of the rune r: "" when r is no severity rune.
SeverityName(r) ==
    CASE r = "D" -> "debug"
      [] r = "I" -> "informational"
      [] r = "W" -> "warning"
      [] r = "E" -> "error"
      [] r = "F" -> "fatal"
      [] OTHER -> ""

\* C12: right after the severity step, s being the first rune after the
\* whitespace at the step's start: if s is one of D, I, W, E, F and the rune
\* after it is whitespace, the step has stored the severity of s, has read s
\* and the whitespace rune after it, and the parse goes on; if not (s is
\* any other rune, the sentinel included, or no whitespace follows s) the
\* parse fails.
C12_Severity ==
    called # <<>> /\ LastCall = "parseSeverity" =>
        LET s == eatWhitespace(called[Len(called)].at)
        IN  IF SeverityName(runes[s]) # "" /\ runes[s + 1] \in Space
            THEN /\ err = NoErr
                 /\ pc = "parseComponent"
                 /\ Fields["severity"] = StringV(SeverityName(runes[s]))
                 /\ position = s + 2
            ELSE /\ err # NoErr
                 /\ pc \in {"return", "done"}
                 /\ ret.returned => ret.err = err

\* The severity step has stored fatal, after two runes of whitespace.
C12_Fatal ==
    /\ called # <<>>
    /\ LastCall = "parseSeverity"
    /\ err = NoErr
    /\ Fields["severity"] = StringV("fatal")
    /\ eatWhitespace(called[Len(called)].at) = called[Len(called)].at + 2

\* The names of the fields fs, in the order of the line.
FieldKeys(fs) == [i \in DOMAIN fs |-> Str(fs[i].name)]

\* The insertions that C13 states: the four base keys, then message alone,
\* or operation, namespace, the fields of the line in their order (known
\* for a generated operation line) and duration last.
InsertionOrder ==
    /\ Len(inserted) >= 5
    /\ SubSeq(inserted, 1, 4) = <<"timestamp", "severity", "component", "context">>
    /\ \/ SubSeq(inserted, 5, Len(inserted)) = <<"message">>
       \/ /\ Len(inserted) >= 7
          /\ SubSeq(inserted, 5, 6) = <<"operation", "namespace">>
          /\ inserted[Len(inserted)] = "duration"
          /\ drawn.family = "operation" =>
                SubSeq(inserted, 7, Len(inserted) - 1) = FieldKeys(drawn.shape.fs)

\* C13, as stated: on success the insertions into the top-level record are
\* timestamp, severity, component, context, and then message alone, or
\* operation, namespace, the fields in the order of the line and duration
\* last; and the record returned keeps that order, so that timestamp is the
\* first key it yields.
C13_Original == Success => InsertionOrder /\ firstKey = <<"timestamp">>

\* No ':' stands between the position s and the sentinel.
NoColonFrom(s) == \A k \in s..Sentinel : runes[k] # ":"

\* The mappings m and n are the same but for the key k.
SameBut(m, n, k) ==
    /\ (DOMAIN m) \ {k} = (DOMAIN n) \ {k}
    /\ \A x \in (DOMAIN m) \ {k} : m[x] = n[x]

\* C14: in a round of the field loop whose probe fails (no ':' stands
\* between the first rune after the whitespace and the sentinel), the
\* duration is read from the position saved at the start of the probe, after
\* the whitespace, and the record is what it was before the probe but for
\* the duration stored after it; no error is dropped.
C14_Backtrack ==
    [][pc = "parseOperationBody" /\ runes[position] # endRune
           /\ NoColonFrom(eatWhitespace(position))
       => /\ called' = called \o <<Call("parseFieldAndValue", position),
                                    Call("readDuration", eatWhitespace(position))>>
          /\ SameBut(Fields, Fields', "duration")
          /\ dropped' = dropped]_vars

\* A probe has failed after it skipped whitespace, and the duration has been
\* read where it started.
C14_NoMoreFields ==
    /\ Success
    /\ Len(called) >= 2
    /\ LastCall = "readDuration"
    /\ called[Len(called) - 1].fn = "parseFieldAndValue"
    /\ called[Len(called) - 1].at < called[Len(called)].at
    /\ ~Has(Fields, "message")

\* LogDocParser accepts the text: rule LogDoc matches at its start.
PegAccepts == ruleLogDoc(1) # NoMatch

\* The hand-written parser accepts the text: parseJSONValue, started at the
\* text's first rune, returns a value and leaves the cursor at the sentinel.
HandAccepts ==
    LET r == parseJSONValue(1)
    IN  r.st = "ok" /\ r.pos = Sentinel

\* C15, as stated: the generated parser accepts a document text exactly
\* when the hand-written one does.
C15_Original == drawn.family = "document" => (PegAccepts <=> HandAccepts)

\* The round of the field loop that starts in this state reads a plan
\* summary: the next field's name is planSummary.
PlanSummaryRound ==
    /\ pc = "parseOperationBody"
    /\ runes[position] # endRune
    /\ LET fieldName == readUntilRune(eatWhitespace(position), ":")
       IN  fieldName.st = "ok" /\ Str(fieldName.val) = "planSummary"

\* Where that round probes for the first element of the plan summary: the
\* position saved at the start of the probe.
FirstElement ==
    eatWhitespace(readUntilRune(eatWhitespace(position), ":").pos + 1)

\* C16, as stated: the cursor never moves back from one statement of Parse,
\* or one round of the field loop, to the next (inside them it moves back
\* only to a position a probe saved); and a plan-summary element probe that
\* ends without an element and without an error leaves the cursor at the
\* position saved at its start and drops nothing.
C16_Original ==
    [][/\ position' >= position
       /\ PlanSummaryRound =>
             LET el == parsePlanSummaryElement(FirstElement)
             IN  el.st = "ok" /\ el.elem = <<>> =>
                     el.pos = FirstElement /\ el.lost = <<>>]_vars

\* C17, as stated: the cursor is at or before the sentinel whenever a
\* statement of Parse is still to read the buffer, and no call of
\* ParseLogLine ends in an index-out-of-range panic.
C17_Original ==
    /\ pc \notin {"return", "done", "panic"} => position <= Sentinel
    /\ ~(pc = "panic" /\ err = "index out of range")

\* The call has ended: ParseLogLine has returned, or a panic has unwound it.
Ended == pc \in {"done", "panic"}

\* A round of parseOperationBody's loop that is followed by another round
\* has moved the cursor forward.
BodyProgress ==
    pc = "parseOperationBody" /\ pc' = "parseOperationBody"
        => position' > position

\* Wherever in the line a round of parseJSONMap's loop, of parseJSONArray's
\* loop, of parsePlanSummary's loop or of the embedded-JSON scan starts, the
\* round that is followed by another one leaves the cursor further on.  The
\* line does not change during the call: this is evaluated once per line.
InnerProgress ==
    pc = "parseTimestamp" =>
        \A i \in 1..(Sentinel - 1) :
            /\ Bind(mapRound(i, EmptyMap), LAMBDA r :
                    r.st = "more" => r.pos > i)
            /\ Bind(arrayRound(i, <<>>), LAMBDA r :
                    r.st = "more" => r.pos > i)
            /\ Bind(planSummaryRound(i, <<>>, <<>>), LAMBDA r :
                    r.st = "more" => r.pos > i)
            /\ \A quoted \in BOOLEAN :
                    Bind(embeddedStep(i, i, quoted), LAMBDA r :
                        r.st = "more" => r.pos > i)

\* C18: ParseLogLine terminates on every line: every round of the
\* operation-body loop, the map loop, the list loop, the plan-summary loop
\* and the embedded-JSON scan moves the cursor forward by at least one rune
\* or leaves its loop, and every call ends (by a return, or by the panic of
\* C17).
C18_Terminates ==
    /\ []InnerProgress
    /\ [][BodyProgress]_vars
    /\ <>Ended

\* The rounds of parseFieldAndValue made so far.
FieldRounds == {i \in DOMAIN called : called[i].fn = "parseFieldAndValue"}

\* A call has returned after three rounds of the operation-body loop, on a
\* line in which rounds of the map loop and of the list loop were followed
\* by other rounds.
C18_LoopsRan ==
    /\ pc = "done" /\ Cardinality(FieldRounds) >= 3
    /\ \E i \in 1..(Sentinel - 1) : mapRound(i, EmptyMap).st = "more"
    /\ \E i \in 1..(Sentinel - 1) : arrayRound(i, <<>>).st = "more"

\* The last round of parseFieldAndValue made so far, as an index of called.
LastFieldRound == CHOOSE i \in FieldRounds : \A j \in FieldRounds : j <= i

\* The call after the i-th is the reading of the duration: the i-th call,
\* a parseFieldAndValue, has reported that no field is left.
NoMoreFields(i) == i < Len(called) /\ called[i + 1].fn = "readDuration"

\* The token that starts at s, the whitespace skipped, holds no ':'.
NoColonInToken(s) == \A k \in s..(ScanUntil(s, Space) - 1) : runes[k] # ":"

\* C19 as the spec states it: parseFieldAndValue reports that no field is
\* left exactly when the next whitespace-delimited token holds no ':'.
C19_Original ==
    \A i \in FieldRounds :
        NoMoreFields(i) <=> NoColonInToken(eatWhitespace(called[i].at))

\* C19: parseFieldAndValue reports that no field is left exactly when no ':'
\* stands between the first rune after the whitespace and the end of the
\* line; the duration is then read from that rune, the position restored.
\* Otherwise the name of the field is the text from that rune up to the
\* first ':', whitespace included, and the field is stored under it once its
\* value is read.
C19_UntilColon ==
    FieldRounds # {} =>
        Bind(eatWhitespace(called[LastFieldRound].at), LAMBDA s :
            IF NoColonFrom(s)
            THEN /\ NoMoreFields(LastFieldRound)
                 /\ called[LastFieldRound + 1].at = s
            ELSE /\ LastFieldRound = Len(called)
                 /\ err = NoErr /\ pc # "panic"
                        => Has(Fields, Str(Slice(s, ScanUntil(s, {":"})))))

\* Scenario 1 is parsed, and its field 'locks(micros) r:100' is stored under
\* a name of two tokens.
C19_Locks ==
    /\ Success /\ drawn = [family |-> "text", shape |-> Scenario1]
    /\ Has(ret.fields, "locks(micros) r") /\ ~Has(ret.fields, "r")
    /\ ret.fields["locks(micros) r"] = Num(100)

\* The mapping that the entries items add to m, one after the other: an
\* entry binds its key to its value, whatever the key was bound to before,
\* and an empty key adds nothing.
RECURSIVE EntriesOf(_, _)
EntriesOf(items, m) ==
    IF items = <<>> THEN m
    ELSE EntriesOf(Tail(items),
                   CASE Head(items) = "a: 1" -> Put(m, "a", Num(1))
                     [] Head(items) = "a: 2" -> Put(m, "a", Num(2))
                     [] Head(items) = "\"a\": 2" -> Put(m, "a", Num(2))
                     [] Head(items) = "b: 1" -> Put(m, "b", Num(1))
                     [] OTHER -> m)

\* The map drawn is well formed: it is closed by '}', and no ':' stands
\* where ',' or '}' must (a quoted empty key is a key read empty, and its
\* ':' is not read).
WellFormed(sh) ==
    sh.closed /\ \A i \in DOMAIN sh.items : sh.items[i] # "'': 1"

\* Where the '{' of the map drawn stands.
MapStart == Len(MapHead) + 1

\* C20: parseJSONMap, started on the '{' of a map drawn, returns the mapping
\* with one entry per non-empty key, bound to the value after the key's last
\* ':', and leaves the cursor just past the '}'; an empty key adds no entry
\* and must be followed by ',' or '}' as an entry must; any other rune there
\* makes it fail.  ParseLogLine then returns the mapping as the field q, or
\* the failure.
C20_Map ==
    drawn.family = "map" =>
        /\ Bind(parseJSONMap(MapStart), LAMBDA r :
                IF WellFormed(drawn.shape)
                THEN r = Ok(MapStart + Len(RenderMap(drawn.shape)),
                            MapV(EntriesOf(drawn.shape.items, EmptyMap)))
                ELSE r.st = "err" /\ r.val = "expected '}' or ',' in json")
        /\ ret.returned =>
                IF WellFormed(drawn.shape)
                THEN /\ ret.err = NoErr /\ Has(ret.fields, "q")
                     /\ ret.fields["q"]
                            = MapV(EntriesOf(drawn.shape.items, EmptyMap))
                ELSE /\ ret.err = "expected '}' or ',' in json"
                     /\ ret.fields = EmptyMap

\* ParseLogLine has returned the map of '{ a: 1, "a": 2 }', a bound to 2.
C20_Overwritten ==
    /\ Success /\ drawn.family = "map"
    /\ drawn.shape.items = <<"a: 1", "\"a\": 2">>
    /\ ret.fields["q"] = MapV(Put(EmptyMap, "a", Num(2)))

\* Where the value of a line made by ValueLine starts.
ValueStart == Len(MapHead) + 6

\* The document returned for such a line, v being the value of a.
ValueDocument(v) == MapV(Put(Put(EmptyMap, "a", v), "n", Num(1)))

\* The values of the elements of a list drawn, in their order.
ElementsOf(items) ==
    [i \in DOMAIN items |->
        CASE items[i] = <<"1">> -> Num(1)
          [] items[i] = <<"-", "2">> -> Num(0 - 2)
          [] OTHER -> BoolV(TRUE)]

\* C21: parseJSONArray, started on the '[' of a list drawn, returns the
\* values of its elements in their order, the empty list when only
\* whitespace stands before ']', and leaves the cursor just past the ']';
\* a rune other than ',' and ']' after an element makes it fail, and so
\* makes ParseLogLine fail.
C21_List ==
    drawn.family = "list" =>
        /\ Bind(parseJSONArray(ValueStart), LAMBDA r :
                IF drawn.shape.closed
                THEN r = Ok(ValueStart + Len(RenderList(drawn.shape)),
                            ListV(ElementsOf(drawn.shape.items)))
                ELSE /\ r.st = "err"
                     /\ drawn.shape.items # <<>>
                            => r.val = "expected ']' or ',' in json")
        /\ ret.returned =>
                IF drawn.shape.closed
                THEN /\ ret.err = NoErr /\ Has(ret.fields, "q")
                     /\ ret.fields["q"]
                            = ValueDocument(ListV(ElementsOf(drawn.shape.items)))
                ELSE ret.err # NoErr /\ ret.fields = EmptyMap

\* ParseLogLine has returned the list of '[ 1, -2 ]'.
C21_TwoElements ==
    /\ Success /\ drawn.family = "list"
    /\ drawn.shape.items = <<(<<"1">>), <<"-", "2">>>> /\ drawn.shape.pad
    /\ ret.fields["q"]["kv"]["a"] = ListV(<<Num(1), Num(0 - 2)>>)

\* The value drawn is the text written s.
Value(s) == drawn.family = "value" /\ Str(drawn.shape) = s

\* The line drawn is cut after the value, the text written s.
Cut(s) == drawn.family = "cut" /\ Str(drawn.shape) = s

\* C22 as the specification states it: after 'Timestamp(1, 2)' the cursor is
\* just past the ')' and the document around it is parsed; 'Timestamp 1|2'
\* gives the digits and '|' that follow the whitespace.
C22_Original ==
    /\ Value("Timestamp(1, 2)") =>
            /\ parseJSONValue(ValueStart).st = "ok"
            /\ parseJSONValue(ValueStart).pos = ValueStart + Len(drawn.shape)
            /\ ret.returned => ret.err = NoErr
    /\ Value("Timestamp 1|2") =>
            /\ parseJSONValue(ValueStart)
                    = Ok(ValueStart + Len(drawn.shape), StringV("1|2"))
            /\ ret.returned =>
                    ret.err = NoErr /\ ret.fields["q"] = ValueDocument(StringV("1|2"))

\* Where 'ObjectId' starts in a line made by RenderObjectId.
IdStart == Len(OpPrefix) + (IF drawn.shape.named THEN 26 ELSE 19)

\* The ObjectId values that are wrong: another closing quote, a rune that is
\* no hex digit, no '(', no ')', no quote.
BadObjectIds ==
    {"ObjectId('5f\")", "ObjectId(\"5g\")", "ObjectId\"5f\")", "ObjectId(\"5f\"",
     "ObjectId(5f)", "ObjectId(\"5f"}

\* C23: 'ObjectId(' + quote + hex digits + the same quote + ')' is read as
\* the hex digits, for either quote and for no digit at all, the cursor left
\* just past the ')'; another closing quote, a rune that is no hex digit, a
\* missing parenthesis or quote, and the end of the line fail, and
\* ParseLogLine returns that failure.
C23_ObjectId ==
    /\ drawn.family = "objectid" =>
            parseJSONValue(IdStart)
                = Ok(IdStart + 12 + Len(drawn.shape.hex),
                     StringV(Str(drawn.shape.hex)))
    /\ drawn.family \in {"value", "cut"} /\ Str(drawn.shape) \in BadObjectIds =>
            Bind(parseJSONValue(ValueStart), LAMBDA r :
                /\ r.st = "err"
                /\ Cut("ObjectId(\"5f") => r.val = "unexpected end of line"
                /\ Value("ObjectId(5f)") => r.val = "expected quote in ObjectId"
                /\ ret.returned => ret.err = r.val /\ ret.fields = EmptyMap)

\* ParseLogLine has returned the document of "{ _id: ObjectId('5A') }".
C23_Apostrophe ==
    /\ Success /\ drawn.family = "objectid" /\ drawn.shape.named
    /\ drawn.shape.q = Apostrophe /\ drawn.shape.hex = <<"5", "A">>
    /\ ret.fields["query"] = IdDocument(drawn.shape.hex)

\* The point in time n milliseconds after the UNIX epoch, n as it is written
\* in DateShapes: whole seconds since the epoch, and nanoseconds from 0 to
\* 999999999 after them.
EpochPlus(n) ==
    CASE Str(n) = "0" -> TimeV(0, 0)
      [] Str(n) = "1" -> TimeV(0, 1000000)
      [] Str(n) = "1500" -> TimeV(1, 500000000)
      [] Str(n) = "-1" -> TimeV(0 - 1, 999000000)
      [] Str(n) = "-1500" -> TimeV(0 - 2, 500000000)
      [] Str(n) = "86400000" -> TimeV(86400, 0)
      [] Str(n) = "2.0" -> TimeV(0, 2000000)
      [] Str(n) = "1e3" -> TimeV(1, 0)
      [] Str(n) = "1e19" -> TimeV("10000000000000000", 0)
      [] Str(n) = "-1e19" -> TimeV("-10000000000000000", 0)

\* C24 as the specification states it: 'new Date(n)' with n integral is the
\* point in time n milliseconds after the epoch; with n not integral it
\* fails; and another constructor fails as an unknown constructor.
C24_Original ==
    drawn.family = "date" =>
        Bind(parseJSONValue(ValueStart), LAMBDA r :
            IF Str(drawn.shape.ctor) # "Date"
            THEN r.st = "err" /\ r.val = "unexpected constructor"
            ELSE IF Str(drawn.shape.n) \in {"1.5", "-0.5"}
            THEN r.st = "err" /\ r.val = "expected int in new Date()"
            ELSE /\ r.st = "ok" /\ r.val = EpochPlus(drawn.shape.n)
                 /\ Success => ret.fields["q"] = ValueDocument(r.val))

\* C25 as the specification states it: a value written 'x', in single
\* quotes, is the string that the value written "x" is, and the document
\* around it is returned.
C25_Original ==
    Value("'x'") \/ Value("\"x\"") =>
        /\ parseJSONValue(ValueStart) = Ok(ValueStart + 3, StringV("x"))
        /\ ret.returned =>
                ret.err = NoErr /\ ret.fields["q"] = ValueDocument(StringV("x"))

\* The plan summary that the stages drawn stand for: one mapping per stage,
\* the name bound to the map after it, or to true.
PlanOf(stages) ==
    ListV([i \in DOMAIN stages |->
              MapV(Put(EmptyMap, Str(stages[i].name),
                       IF stages[i].map THEN MapV(Put(EmptyMap, "a", Num(1)))
                       ELSE BoolV(TRUE)))])

\* C26 as the specification states it: a plan summary of stages separated
\* by ', ' is stored as the list of its stages, and the field and the
\* duration after it are parsed.
C26_Original ==
    drawn.family = "plan" /\ ret.returned =>
        /\ ret.err = NoErr
        /\ DOMAIN ret.fields
              = BaseKeys \cup {"operation", "namespace", "planSummary", "n", "duration"}
        /\ ret.fields["planSummary"] = PlanOf(drawn.shape)
        /\ ret.fields["n"] = Num(1)
        /\ ret.fields["duration"] = Num(0)

\* Where the string that starts the value drawn ends: the index in the value
\* of the first '"' after the opening one, 0 when there is none.
ClosingQuote ==
    IF \E k \in 2..Len(drawn.shape) : drawn.shape[k] = Quote
    THEN CHOOSE k \in 2..Len(drawn.shape) :
             /\ drawn.shape[k] = Quote
             /\ \A j \in 2..(k - 1) : drawn.shape[j] # Quote
    ELSE 0

\* C27: a value drawn that starts with '"' (and not with '"{') is read as
\* the runes between that quote and the next '"', backslashes kept and a
\* quote after a backslash ending the string, the cursor left just past that
\* quote; with no later '"' up to the end of the line the read fails.  When
\* the string is the whole value, ParseLogLine returns it in the document.
C27_NoEscapes ==
    drawn.family \in {"value", "cut"} /\ drawn.shape[1] = Quote =>
        Bind(parseJSONValue(ValueStart), LAMBDA r :
            IF ClosingQuote # 0
            THEN /\ r = Ok(ValueStart + ClosingQuote,
                           StringV(Str(SubSeq(drawn.shape, 2, ClosingQuote - 1))))
                 /\ Success
                        => /\ ClosingQuote = Len(drawn.shape)
                           /\ ret.fields["q"] = ValueDocument(r.val)
            ELSE /\ r.st = "err"
                 /\ r.val = "found end of line before expected rune"
                 /\ ret.returned => ret.err = r.val)

\* The value '"a\\b"' has been returned with its two backslashes, and the
\* line is parsed.
C27_Backslashes ==
    /\ Success /\ drawn.family = "value"
    /\ drawn.shape = <<Quote, "a", "\\", "\\", "b", Quote>>
    /\ ret.fields["q"]["kv"]["a"] = StringV(Str(<<"a", "\\", "\\", "b">>))

(***************************************************************************)
(* C28.  The lines 'query db.c a:1 <digits><unit>': the duration is read   *)
(* where the digits start.                                                 *)
(***************************************************************************)
DurStart == Len(OpPrefix) + 16

\* The two runes after the digits are 'm', 's'.
HasMs ==
    /\ Len(drawn.shape.unit) >= 2
    /\ SubSeq(drawn.shape.unit, 1, 2) = <<"m", "s">>

\* The line was rejected: an error and no record.
Rejected == ret.returned /\ ret.err # NoErr /\ ret.fields = EmptyMap

FieldStart == Len(OpPrefix) + 14

ValueAt == FieldStart + Len(drawn.shape.pad)

\* The first rune of the value: the sentinel when the line ends there.
FirstRune ==
    IF drawn.shape.body = <<>> THEN endRune ELSE drawn.shape.body[1]

\* C29: for a top-level operation field whose name is neither planSummary nor
\* command, the value parser is chosen by the first rune after the ':' and
\* the optional whitespace: '{' parses a document, a digit parses a number,
\* '"' parses a quoted string with the normal string reader, and every other
\* first rune (a sign, '[', a letter, the sentinel) makes the whole parse
\* fail with the unexpected-value-start error; when the parser chosen
\* succeeds its value is stored under the field name, and when it fails the
\* line is rejected with its error.
C29_Dispatch ==
    drawn.family = "field" =>
        Bind(plainValue(ValueAt), LAMBDA r :
            /\ runes[ValueAt] = FirstRune
            /\ CASE FirstRune = "{" -> r = parseJSONMap(ValueAt)
                 [] FirstRune \in Digit -> r = readNumber(ValueAt)
                 [] FirstRune = Quote ->
                        r = AsStringV(parseStringValue(ValueAt, Quote))
                 [] OTHER ->
                        r = Fail(ValueAt,
                                 "unexpected start character for value of field")
            /\ FieldRounds # {} /\ r.st = "ok"
                   => Has(Fields, "a") /\ Fields["a"] = r.val
            /\ FieldRounds # {} /\ r.st = "err"
                   => ~Has(Fields, "a") /\ err = r.val
            /\ ret.returned /\ r.st = "err" => Rejected /\ ret.err = r.val
            /\ Success => ret.fields["a"] = r.val)

\* The line 'query db.c a: <tab>1.5e1 0ms' has been parsed: the digit chose the
\* number reader, and 15 is stored under a.
C29_Stored ==
    /\ drawn.family = "field" /\ ret.returned
    /\ drawn.shape.body = <<"1",".","5","e","1"," ","0","m","s">>
    /\ drawn.shape.pad = <<" ", "\t">>
    /\ ret.err = NoErr
    /\ ret.fields["a"] = Num(15)

(***************************************************************************)
(* C30.  The lines 'command db.$cmd command:<pad><name><gap><open><rest>'. *)
(***************************************************************************)
\* C30 as stated: for the top-level field named command, when the first rune
\* of its value is '{' the document is parsed and stored under command and no
\* command_type key is inserted; otherwise a JSON-identifier is read and
\* stored under the top-level key command_type (not inside command),
\* whitespace is skipped, and the document that follows is parsed and stored
\* under command; if no '{' follows the identifier the parse fails.
C30_Original ==
    drawn.family = "command" =>
        IF drawn.shape.open = <<"{">>
        THEN drawn.shape.rest # <<>> /\ ret.returned
                 => /\ Success
                    /\ ret.fields["command"] =
                           MapV(Put(EmptyMap, "ismaster", Num(1)))
                    /\ IF drawn.shape.name = <<>>
                       THEN ~Has(ret.fields, "command_type")
                       ELSE ret.fields["command_type"] =
                                StringV(Str(drawn.shape.name))
        ELSE ~Success

====
